---- MODULE Spec2Model ----
(***************************************************************************)
(* Verification model of the interactive booking conversation engine of    *)
(* chatbot-parking: run_chat_turn (interactive_flow.py), the field         *)
(* validators (booking_utils.py), the in-memory Persistence port           *)
(* (persistence.py) and the web Turn Host (_run_chat_turn in               *)
(* web_demo_server.py).                                                    *)
(*                                                                         *)
(* Python values are represented as follows: str -> TLA+ string, None of a *)
(* string-valued field -> NULL, dict -> function with a string domain      *)
(* (a key is present iff it is in DOMAIN), None/{} of a dict-valued field  *)
(* -> EmptyDict, uuid4() -> "req-<n>" with n a fresh counter,              *)
(* _utc_now() -> "T<clock>" with clock the number of decisions so far.     *)
(***************************************************************************)
EXTENDS Integers, Sequences, FiniteSets, TLC

NULL == "<None>"

EmptyDict == [k \in {} |-> k]

\* F applied to the value of e, which is computed once
Bind(e, F(_)) == CHOOSE r \in {F(v) : v \in {e}} : TRUE

\* the function f restricted to S, with every value computed
RECURSIVE Explicit(_, _)
Explicit(S, f) ==
    IF S = {} THEN EmptyDict
    ELSE LET x == CHOOSE y \in S : TRUE
         IN  (x :> f[x]) @@ Explicit(S \ {x}, f)

\* the function [x \in S |-> F(x)] as an explicit table
Tabulate(S, F(_)) ==
    Bind(S, LAMBDA D : Bind([x \in D |-> F(x)], LAMBDA f : Explicit(D, f)))

(***************************************************************************)
(* Python str primitives used by the engine.                               *)
(***************************************************************************)
UpperChars == "ABCDEFGHIJKLMNOPQRSTUVWXYZ"

LowerChars == "abcdefghijklmnopqrstuvwxyz"

DigitChars == "0123456789"

\* s[i:j+1] with Python's clamping of out-of-range positions (1-based here)
Slice(s, i, j) ==
    LET lo == IF i < 1 THEN 1 ELSE i
        hi == IF j > Len(s) THEN Len(s) ELSE j
    IN  IF lo > hi THEN "" ELSE SubSeq(s, lo, hi)

CharAt(s, i) == Slice(s, i, i)

CharsOf(s) == {CharAt(s, i) : i \in 1..Len(s)}

UpperSet == CharsOf(UpperChars)

LowerSet == CharsOf(LowerChars)

DigitSet == CharsOf(DigitChars)

AlphaSet == UpperSet \cup LowerSet

SpaceSet == {" ", "\t", "\n"}

\* position of the character c in alphabet (no character occurs twice), or 0
IndexOf(c, alphabet) ==
    IF \E i \in 1..Len(alphabet) : CharAt(alphabet, i) = c
    THEN CHOOSE i \in 1..Len(alphabet) : CharAt(alphabet, i) = c
    ELSE 0

LowerChar(c) ==
    LET i == IndexOf(c, UpperChars)
    IN  IF i = 0 THEN c ELSE CharAt(LowerChars, i)

UpperChar(c) ==
    LET i == IndexOf(c, LowerChars)
    IN  IF i = 0 THEN c ELSE CharAt(UpperChars, i)

\* character-wise maps split the string in halves to keep the recursion shallow
RECURSIVE str_lower(_)
str_lower(s) ==
    IF Len(s) = 0 THEN ""
    ELSE IF Len(s) = 1 THEN LowerChar(s)
    ELSE str_lower(SubSeq(s, 1, Len(s) \div 2))
         \o str_lower(SubSeq(s, (Len(s) \div 2) + 1, Len(s)))

RECURSIVE str_upper(_)
str_upper(s) ==
    IF Len(s) = 0 THEN ""
    ELSE IF Len(s) = 1 THEN UpperChar(s)
    ELSE str_upper(SubSeq(s, 1, Len(s) \div 2))
         \o str_upper(SubSeq(s, (Len(s) \div 2) + 1, Len(s)))

\* s.strip(): from the first to the last character that is not whitespace
str_strip(s) ==
    Bind(s, LAMBDA v :
    Bind({i \in 1..Len(v) : CharAt(v, i) \notin SpaceSet}, LAMBDA keep :
        IF keep = {} THEN ""
        ELSE SubSeq(v, CHOOSE i \in keep : \A j \in keep : i <= j,
                       CHOOSE i \in keep : \A j \in keep : j <= i)))

\* value.replace(" ", "")
RECURSIVE str_remove_spaces(_)
str_remove_spaces(s) ==
    IF Len(s) = 0 THEN ""
    ELSE IF Len(s) = 1 THEN (IF s = " " THEN "" ELSE s)
    ELSE str_remove_spaces(SubSeq(s, 1, Len(s) \div 2))
         \o str_remove_spaces(SubSeq(s, (Len(s) \div 2) + 1, Len(s)))

\* sub in s
str_contains(s, sub) ==
    \E i \in 1..(Len(s) - Len(sub) + 1) : SubSeq(s, i, i + Len(sub) - 1) = sub

str_startswith(s, prefix) ==
    Len(s) >= Len(prefix) /\ SubSeq(s, 1, Len(prefix)) = prefix

\* every character of s[i..j] lies in the character class cls
AllIn(s, i, j, cls) == \A k \in i..j : CharAt(s, k) \in cls

(***************************************************************************)
(* booking_utils.py: constants and intent detection.                       *)
(***************************************************************************)
BOOKING_FIELDS == <<"name", "surname", "car_number", "reservation_period">>

FieldSet == {BOOKING_FIELDS[i] : i \in 1..Len(BOOKING_FIELDS)}

\* The four Cyrillic keywords of the source list cannot occur in the ASCII
\* message alphabet used here and are left out.
BOOKING_KEYWORDS ==
    {"book", "booking", "reserve", "reservation", "parking spot", "parking place"}

is_booking_keyword_intent(message) ==
    LET lowered == str_lower(message)
    IN  \E word \in BOOKING_KEYWORDS : str_contains(lowered, word)

(***************************************************************************)
(* interactive_flow.py: command recognisers.                               *)
(***************************************************************************)
CONFIRM_COMMANDS == {"confirm", "submit", "yes", "approve", "ok"}

CANCEL_COMMANDS == {"cancel", "stop", "abort", "quit"}

_is_confirm_command(text) ==
    LET lowered == str_lower(str_strip(text))
    IN  lowered \in CONFIRM_COMMANDS \/ str_startswith(lowered, "confirm ")

_is_cancel_command(text) ==
    LET lowered == str_lower(str_strip(text))
    IN  IF str_contains(lowered, "cancel booking") THEN TRUE
        ELSE lowered \in CANCEL_COMMANDS

(***************************************************************************)
(* datetime: a naive datetime with zero seconds is the number of minutes   *)
(* since 0001-01-01 00:00 (proleptic Gregorian calendar, as in CPython).   *)
(***************************************************************************)
IsLeap(y) == (y % 4 = 0) /\ ((y % 100 # 0) \/ (y % 400 = 0))

DaysInMonth(y, m) ==
    IF m = 2 THEN (IF IsLeap(y) THEN 29 ELSE 28)
    ELSE IF m \in {4, 6, 9, 11} THEN 30 ELSE 31

DaysBeforeYear(y) ==
    (y - 1) * 365 + ((y - 1) \div 4) - ((y - 1) \div 100) + ((y - 1) \div 400)

RECURSIVE DaysBeforeMonth(_, _)
DaysBeforeMonth(y, m) ==
    IF m <= 1 THEN 0 ELSE DaysBeforeMonth(y, m - 1) + DaysInMonth(y, m - 1)

ToOrdinal(y, m, d) == DaysBeforeYear(y) + DaysBeforeMonth(y, m) + d

MinutesPerDay == 1440

MakeDateTime(y, m, d, hh, mm) ==
    (ToOrdinal(y, m, d) - 1) * MinutesPerDay + hh * 60 + mm

\* datetime.time() as minutes after midnight
TimeOf(dt) == dt % MinutesPerDay

OrdinalOf(dt) == (dt \div MinutesPerDay) + 1

YearOfOrdinal(n) ==
    CHOOSE y \in (n \div 366)..((n \div 365) + 1) :
        y >= 1 /\ DaysBeforeYear(y) < n /\ n <= DaysBeforeYear(y + 1)

MonthOfOrdinal(n) ==
    LET y == YearOfOrdinal(n)
        r == n - DaysBeforeYear(y)
    IN  CHOOSE m \in 1..12 :
            DaysBeforeMonth(y, m) < r /\ r <= DaysBeforeMonth(y, m) + DaysInMonth(y, m)

DayOfOrdinal(n) ==
    LET y == YearOfOrdinal(n)
    IN  n - DaysBeforeYear(y) - DaysBeforeMonth(y, MonthOfOrdinal(n))

\* dt.replace(hour=hh, minute=mm, second=0, microsecond=0)
ReplaceTime(dt, hh, mm) == (dt \div MinutesPerDay) * MinutesPerDay + hh * 60 + mm

Pad2(n) == IF n < 10 THEN "0" \o ToString(n) ELSE ToString(n)

\* dt.strftime('%Y-%m-%d %H:%M') (glibc: %Y is not zero padded)
strftime(dt) ==
    LET n == OrdinalOf(dt)
        t == TimeOf(dt)
    IN  ToString(YearOfOrdinal(n)) \o "-" \o Pad2(MonthOfOrdinal(n)) \o "-"
        \o Pad2(DayOfOrdinal(n)) \o " " \o Pad2(t \div 60) \o ":" \o Pad2(t % 60)

(***************************************************************************)
(* Regular-expression matching, position by position.                       *)
(***************************************************************************)
DigitVal(c) == IndexOf(c, DigitChars) - 1

RECURSIVE DigitsVal(_)
DigitsVal(s) ==
    IF s = "" THEN 0
    ELSE DigitsVal(SubSeq(s, 1, Len(s) - 1)) * 10 + DigitVal(CharAt(s, Len(s)))

IsDigits(s, i, n) == i + n - 1 <= Len(s) /\ AllIn(s, i, i + n - 1, DigitSet)

\* first position >= i that holds no whitespace (Len(s) + 1 when there is none)
SkipSpaces(s, i) ==
    LET stops == {k \in i..Len(s) : CharAt(s, k) \notin SpaceSet}
    IN  IF stops = {} THEN (IF i > Len(s) THEN i ELSE Len(s) + 1)
        ELSE CHOOSE k \in stops : \A j \in stops : k <= j

\* \d{4}-\d{2}-\d{2}\s+\d{2}:\d{2} at position i; next = 0 when there is no match
MatchStamp(s, i) ==
    Bind(SkipSpaces(s, i + 10), LAMBDA j :
        IF /\ IsDigits(s, i, 4) /\ CharAt(s, i + 4) = "-"
           /\ IsDigits(s, i + 5, 2) /\ CharAt(s, i + 7) = "-"
           /\ IsDigits(s, i + 8, 2)
           /\ j > i + 10
           /\ IsDigits(s, j, 2) /\ CharAt(s, j + 2) = ":"
           /\ IsDigits(s, j + 3, 2)
        THEN [next |-> j + 5,
              y  |-> DigitsVal(SubSeq(s, i, i + 3)),
              mo |-> DigitsVal(SubSeq(s, i + 5, i + 6)),
              d  |-> DigitsVal(SubSeq(s, i + 8, i + 9)),
              hh |-> DigitsVal(SubSeq(s, j, j + 1)),
              mi |-> DigitsVal(SubSeq(s, j + 3, j + 4))]
        ELSE [next |-> 0, y |-> 0, mo |-> 0, d |-> 0, hh |-> 0, mi |-> 0])

\* PERIOD_RE.match(value): <<first stamp, second stamp>> or << >>
PERIOD_RE_match(value) ==
    Bind(MatchStamp(value, SkipSpaces(value, 1)), LAMBDA a :
    Bind(SkipSpaces(value, a.next), LAMBDA p1 :
    Bind(SkipSpaces(value, p1 + 2), LAMBDA p2 :
    Bind(MatchStamp(value, p2), LAMBDA b :
        IF /\ a.next # 0
           /\ p1 > a.next
           /\ str_lower(Slice(value, p1, p1 + 1)) = "to"
           /\ p2 > p1 + 2
           /\ b.next # 0
           /\ SkipSpaces(value, b.next) = Len(value) + 1
        THEN <<a, b>>
        ELSE << >>))))

\* datetime.strptime(group, "%Y-%m-%d %H:%M") raises ValueError on these
StampValid(m) ==
    /\ m.y >= 1
    /\ m.mo \in 1..12
    /\ m.d >= 1 /\ m.d <= DaysInMonth(m.y, m.mo)
    /\ m.hh \in 0..23
    /\ m.mi \in 0..59

StampTime(m) == MakeDateTime(m.y, m.mo, m.d, m.hh, m.mi)

\* _parse_period_or_none: kind "none" (no regex match), "raise" (strptime
\* raised ValueError, which the function does not catch) or "ok".
_parse_period_or_none(value) ==
    Bind(PERIOD_RE_match(value), LAMBDA m :
        IF m = << >> THEN [kind |-> "none", start |-> 0, end |-> 0]
        ELSE IF ~(StampValid(m[1]) /\ StampValid(m[2]))
             THEN [kind |-> "raise", start |-> 0, end |-> 0]
        ELSE [kind |-> "ok", start |-> StampTime(m[1]), end |-> StampTime(m[2])])

parse_reservation_period(value) == _parse_period_or_none(value)

NameTail == AlphaSet \cup {"'", " ", "-"}

\* NAME_RE = ^[A-Za-z][A-Za-z' -]{1,49}$
NAME_RE_fullmatch(value) ==
    /\ Len(value) >= 2 /\ Len(value) <= 50
    /\ CharAt(value, 1) \in AlphaSet
    /\ AllIn(value, 2, Len(value), NameTail)

\* CAR_RE = ^[A-Z0-9-]{4,12}$
CAR_RE_fullmatch(value) ==
    /\ Len(value) >= 4 /\ Len(value) <= 12
    /\ AllIn(value, 1, Len(value), UpperSet \cup DigitSet \cup {"-"})

normalize_car_number(value) == str_remove_spaces(str_upper(value))

\* The caller only normalizes values that validate_field accepted.
normalize_reservation_period(value) ==
    Bind(_parse_period_or_none(value), LAMBDA parsed :
        IF parsed.kind # "ok" THEN str_strip(value)
        ELSE strftime(parsed.start) \o " to " \o strftime(parsed.end))

RAISED == "<raised>"

\* validate_field: NULL (valid), an error text, or RAISED when the period
\* parser raised.
validate_field(field, value) ==
    IF field \in {"name", "surname"}
    THEN (IF ~NAME_RE_fullmatch(value)
          THEN "Use only letters, spaces, apostrophe, or hyphen (2-50 chars)."
          ELSE NULL)
    ELSE IF field = "car_number"
    THEN (IF ~CAR_RE_fullmatch(normalize_car_number(value))
          THEN "Car number must be 4-12 chars: letters, digits, or '-' only."
          ELSE NULL)
    ELSE IF field = "reservation_period"
    THEN Bind(_parse_period_or_none(value), LAMBDA period :
              IF period.kind = "raise" THEN RAISED
              ELSE IF period.kind = "none"
                   THEN "Use format: YYYY-MM-DD HH:MM to YYYY-MM-DD HH:MM."
              ELSE IF period.end <= period.start
                   THEN "Reservation end time must be after start time."
              ELSE NULL)
    ELSE NULL

(***************************************************************************)
(* booking_utils.py: working hours and alternative periods.                *)
(***************************************************************************)
\* (\d{2}:\d{2})\s*-\s*(\d{2}:\d{2}) at position i; 0 when there is no match
HoursMatchAt(s, i) ==
    LET p1 == SkipSpaces(s, i + 5)
        p2 == SkipSpaces(s, p1 + 1)
    IN  IF /\ IsDigits(s, i, 2) /\ CharAt(s, i + 2) = ":" /\ IsDigits(s, i + 3, 2)
           /\ CharAt(s, p1) = "-"
           /\ IsDigits(s, p2, 2) /\ CharAt(s, p2 + 2) = ":" /\ IsDigits(s, p2 + 3, 2)
        THEN p2
        ELSE 0

\* parse_working_hours_window: times are minutes after midnight
parse_working_hours_window(working_hours) ==
    Bind({i \in 1..Len(working_hours) : HoursMatchAt(working_hours, i) # 0}, LAMBDA hits :
        IF hits = {} THEN [kind |-> "none", open_at |-> 0, close_at |-> 0]
        ELSE
        Bind(CHOOSE h \in hits : \A g \in hits : h <= g, LAMBDA i :
        Bind(HoursMatchAt(working_hours, i), LAMBDA p2 :
        Bind(DigitsVal(SubSeq(working_hours, i, i + 1)), LAMBDA h1 :
        Bind(DigitsVal(SubSeq(working_hours, i + 3, i + 4)), LAMBDA m1 :
        Bind(DigitsVal(SubSeq(working_hours, p2, p2 + 1)), LAMBDA h2 :
        Bind(DigitsVal(SubSeq(working_hours, p2 + 3, p2 + 4)), LAMBDA m2 :
            IF h1 > 23 \/ m1 > 59 \/ h2 > 23 \/ m2 > 59
            THEN [kind |-> "raise", open_at |-> 0, close_at |-> 0]
            ELSE [kind |-> "ok", open_at |-> h1 * 60 + m1,
                  close_at |-> h2 * 60 + m2])))))))

\* is_period_within_working_hours: "True", "False", "None" or RAISED
is_period_within_working_hours(period, working_hours) ==
    Bind(parse_reservation_period(period), LAMBDA parsed_period :
    Bind(parse_working_hours_window(working_hours), LAMBDA hours_window :
        IF parsed_period.kind = "raise" \/ hours_window.kind = "raise" THEN RAISED
        ELSE IF parsed_period.kind = "none" \/ hours_window.kind = "none" THEN "None"
        ELSE IF /\ TimeOf(parsed_period.start) >= hours_window.open_at
                /\ TimeOf(parsed_period.end) <= hours_window.close_at
             THEN "True"
             ELSE "False"))

\* list with duplicates removed, first occurrences kept
RECURSIVE Dedup(_)
Dedup(seq) ==
    IF seq = << >> THEN << >>
    ELSE LET front == Dedup(SubSeq(seq, 1, Len(seq) - 1))
             item  == seq[Len(seq)]
         IN  IF \E i \in 1..Len(front) : front[i] = item THEN front
             ELSE Append(front, item)

\* suggest_alternative_periods (the callers reach it only where the parsers
\* do not raise; << >> stands for that case too)
suggest_alternative_periods(period, working_hours) ==
    Bind(parse_reservation_period(period), LAMBDA parsed :
    Bind(parse_working_hours_window(working_hours), LAMBDA hours_window :
        IF parsed.kind # "ok" \/ hours_window.kind # "ok" THEN << >>
        ELSE
        LET start    == parsed.start
            end      == parsed.end
            open_at  == hours_window.open_at
            close_at == hours_window.close_at
            duration == IF end - start <= 0 THEN 60 ELSE end - start
            same_day_open  == ReplaceTime(start, open_at \div 60, open_at % 60)
            same_day_close == ReplaceTime(start, close_at \div 60, close_at % 60)
            proposed_start == IF start >= same_day_open THEN start ELSE same_day_open
            proposed_end   == proposed_start + duration
            first == IF proposed_end <= same_day_close
                     THEN << <<proposed_start, proposed_end>> >> ELSE << >>
            next_day_start == ReplaceTime(start + MinutesPerDay, open_at \div 60, open_at % 60)
            next_day_close == ReplaceTime(next_day_start, close_at \div 60, close_at % 60)
            next_day_end   == IF next_day_start + duration > next_day_close
                              THEN next_day_close ELSE next_day_start + duration
            second == IF next_day_end > next_day_start
                      THEN << <<next_day_start, next_day_end>> >> ELSE << >>
            suggestions == first \o second
            rendered == Dedup([i \in 1..Len(suggestions) |->
                          strftime(suggestions[i][1]) \o " to " \o strftime(suggestions[i][2])])
        IN  SubSeq(rendered, 1, IF Len(rendered) < 2 THEN Len(rendered) ELSE 2)))

\* suggest_alternative_periods raises: strptime rejects a matched timestamp of
\* the period or of the working hours (lines 69-70)
suggest_alternative_periods_raises(period, working_hours) ==
    \/ parse_reservation_period(period).kind = "raise"
    \/ parse_working_hours_window(working_hours).kind = "raise"

(***************************************************************************)
(* booking_utils.py: structured shorthand.                                 *)
(***************************************************************************)
SepSet == SpaceSet \cup {",", ";"}

\* (?:^|[\s,;])key[:=] at position i (IGNORECASE): position after [:=], or 0
KeyMatchAt(s, i, key) ==
    IF /\ (i = 1 \/ CharAt(s, i - 1) \in SepSet)
       /\ str_lower(Slice(s, i, i + Len(key) - 1)) = key
       /\ CharAt(s, i + Len(key)) \in {":", "="}
    THEN i + Len(key) + 1
    ELSE 0

\* length of the longest run of cls characters starting at p, at most cap
RunLen(s, p, cls, cap) ==
    CHOOSE n \in 0..cap :
        /\ AllIn(s, p, p + n - 1, cls)
        /\ p + n - 1 <= Len(s)
        /\ (n = cap \/ p + n > Len(s) \/ CharAt(s, p + n) \notin cls)

\* \s*([A-Za-z][A-Za-z' -]{1,49}) after position `after`: the capture or NULL
NameCapture(s, after) ==
    LET v == SkipSpaces(s, after)
        n == RunLen(s, v + 1, NameTail, 49)
    IN  IF CharAt(s, v) \in AlphaSet /\ n >= 1 THEN SubSeq(s, v, v + n) ELSE NULL

CarClass == AlphaSet \cup DigitSet \cup {" ", "-"}

\* \s*([A-Za-z0-9 -]{4,20}): \s* is greedy and gives characters back until
\* the class matches at least 4 characters
CarCapture(s, after) ==
    LET ws     == SkipSpaces(s, after)
        starts == {p \in after..ws : RunLen(s, p, CarClass, 20) >= 4}
    IN  IF starts = {} THEN NULL
        ELSE LET p == CHOOSE q \in starts : \A r \in starts : r <= q
             IN  SubSeq(s, p, p + RunLen(s, p, CarClass, 20) - 1)

\* \s*([^;]+)$: everything up to the end, which must hold no ';'
PeriodCapture(s, after) ==
    LET v == SkipSpaces(s, after)
    IN  IF after > Len(s) THEN NULL
        ELSE IF v > Len(s) THEN CharAt(s, Len(s))
        ELSE IF \E k \in v..Len(s) : CharAt(s, k) = ";" THEN NULL
        ELSE SubSeq(s, v, Len(s))

\* re.search: the capture of the leftmost match over the alternatives `keys`
SearchCapture(s, keys, Capture(_, _)) ==
    LET hits == {i \in 1..Len(s) :
                    \E key \in keys : KeyMatchAt(s, i, key) # 0
                                      /\ Capture(s, KeyMatchAt(s, i, key)) # NULL}
    IN  IF hits = {} THEN NULL
        ELSE LET i   == CHOOSE h \in hits : \A g \in hits : h <= g
                 key == CHOOSE k \in keys : KeyMatchAt(s, i, k) # 0
                                            /\ Capture(s, KeyMatchAt(s, i, k)) # NULL
             IN  Capture(s, KeyMatchAt(s, i, key))

\* parse_structured_details: dict of the stripped captures
parse_structured_details(text) ==
    LET value == str_strip(text)
        raw == [field \in FieldSet |->
                  CASE field = "name" -> SearchCapture(value, {"name"}, NameCapture)
                    [] field = "surname" -> SearchCapture(value, {"surname"}, NameCapture)
                    [] field = "car_number" ->
                         SearchCapture(value, {"car", "plate", "car_number"}, CarCapture)
                    [] field = "reservation_period" ->
                         SearchCapture(value, {"period", "reservation_period"}, PeriodCapture)]
        Entry(field) == str_strip(raw[field])
    IN  Tabulate({f \in FieldSet : raw[f] # NULL}, Entry)

(***************************************************************************)
(* Bounds and inputs.                                                      *)
(***************************************************************************)
MaxRequests == 1

MaxDecisions == 2

\* approval requests that concurrent Turn Host requests may create
MaxHostRequests == 2

\* admin requests created through POST /admin/request
MaxAdminRequests == 1

\* seconds that time.monotonic() advances
MaxTime == 3

\* SlidingWindowRateLimiter(max_requests, window_seconds)
max_requests == 2

window_seconds == 2

ThreadIds == {"t1"}

Workers == {"w1", "w2"}

PERIOD_OK == "2026-02-20 09:00 to 2026-02-20 18:00"

PERIOD_EARLY == "2026-02-20 05:00 to 2026-02-20 18:00"

\* a period in a year below 1000, which strftime renders without the zero
PERIOD_OLD == "0999-02-20 09:00 to 0999-02-20 18:00"

\* one text per branch of run_chat_turn; each field value is valid for as few
\* fields as the validators allow, and the shorthand carries the same values
Messages ==
    {"",
     "cancel", "cancel booking",
     "I want to reserve a spot",
     "confirm it.",
     "O'Neil", "x",
     "aa 1234",
     PERIOD_OK, PERIOD_EARLY,
     "edit car_number",
     "name: O'Neil; surname: O'Neil; car: AA1234; period: " \o PERIOD_OK}

\* the texts of the wizard runs: the four field values typed alone (one of
\* the names contains a booking keyword), values that fail validation, and
\* shorthand with a period outside the working hours
SHORTHAND_EARLY == "period: " \o PERIOD_EARLY

SHORTHAND_BAD == "car: a b c; period: tomorrow"

\* the four fields in one message, the period written last and written first
SHORTHAND_FULL == "name: O'Neil; surname: O'Neil; car: AA1234; period: " \o PERIOD_OK

SHORTHAND_PERIOD_FIRST ==
    "period: " \o PERIOD_OK \o "; name: O'Neil; surname: O'Neil; car: AA1234"

\* a period that matches PERIOD_RE and names a day that does not exist
PERIOD_BAD_DATE == "2026-02-30 09:00 to 2026-02-30 18:00"

\* a confirm command and an edit command that contain a booking keyword, an
\* edit command with an alias, and a blank message
CONFIRM_BOOKING == "confirm booking"

EDIT_PERIOD == "edit reservation_period"

EDIT_PLATE == "change plate"

BLANK == "  "

WizardMessages ==
    {"I want to reserve a spot",
     "confirm it.",
     "O'Neil", "Booker", "x",
     "aa 1234",
     PERIOD_OK, PERIOD_EARLY, PERIOD_OLD, PERIOD_BAD_DATE,
     SHORTHAND_EARLY, SHORTHAND_BAD, SHORTHAND_PERIOD_FIRST}

\* the texts of the review runs: shorthand that completes the wizard in one
\* message, then the commands of the review step and texts that are none
ReviewMessages ==
    {"I want to reserve a spot",
     SHORTHAND_FULL,
     "confirm it.", CONFIRM_BOOKING,
     EDIT_PERIOD, EDIT_PLATE,
     "x", "aa 1234", PERIOD_OK,
     BLANK}

AllMessages == Messages \cup WizardMessages \cup ReviewMessages

DEFAULT_WORKING_HOURS == "Mon-Sun 06:00-23:00"

\* a text without a window, and a window that closes before it opens
UNPARSEABLE_HOURS == "around the clock"

OVERNIGHT_HOURS == "Mon-Sun 22:00-06:00"

WorkingHoursTexts == {DEFAULT_WORKING_HOURS, UNPARSEABLE_HOURS, OVERNIGHT_HOURS}

DEFAULT_AVAILABLE_SPACES == 42

SpaceCounts == {DEFAULT_AVAILABLE_SPACES, 0}

\* What the collaborators do during one call.  Each branch of run_chat_turn
\* reads only its own collaborators (the approved branch: the ledger and the
\* callback; the collecting branch: the DynamicInfo row; the info branch:
\* answer_question), so the combinations are enumerated per branch.
AllEnvs ==
    [append_fails : BOOLEAN, has_recorder : BOOLEAN, recorder_fails : BOOLEAN,
     answer_fails : BOOLEAN, working_hours : WorkingHoursTexts,
     available_spaces : SpaceCounts]

\* number of collaborators that deviate from the normal case
Deviations(e) ==
    (IF e.append_fails THEN 1 ELSE 0) + (IF ~e.has_recorder THEN 1 ELSE 0)
    + (IF e.recorder_fails THEN 1 ELSE 0) + (IF e.answer_fails THEN 1 ELSE 0)
    + (IF e.working_hours # DEFAULT_WORKING_HOURS
          \/ e.available_spaces # DEFAULT_AVAILABLE_SPACES THEN 1 ELSE 0)

\* the environments of the chat turns: at most one collaborator deviates, and
\* the DynamicInfo row is the default one
Envs ==
    {e \in AllEnvs : /\ Deviations(e) <= 1
                     /\ e.working_hours = DEFAULT_WORKING_HOURS
                     /\ e.available_spaces = DEFAULT_AVAILABLE_SPACES}

(***************************************************************************)
(* The pure text functions above are evaluated once over the finite input  *)
(* alphabet; the engine below reads these tables.                          *)
(***************************************************************************)
Texts == {str_strip(m) : m \in AllMessages}

StripTable == Tabulate(AllMessages, str_strip)

CancelTable == Tabulate(Texts, _is_cancel_command)

IntentTable == Tabulate(Texts, is_booking_keyword_intent)

ConfirmTable == Tabulate(Texts, _is_confirm_command)

ParsedTable == Tabulate(Texts, parse_structured_details)

\* every string that can reach validate_field: a message text or a shorthand value
Values ==
    Texts \cup UNION {{parsed[f] : f \in DOMAIN parsed} : parsed \in {ParsedTable[t] : t \in Texts}}

ValidateTable ==
    LET Row(f) == LET Cell(v) == validate_field(f, v) IN Tabulate(Values, Cell)
    IN  Tabulate(FieldSet, Row)

CarTable == Tabulate(Values, normalize_car_number)

PeriodTable == Tabulate(Values, normalize_reservation_period)

HoursTable == Tabulate(WorkingHoursTexts, parse_working_hours_window)

WithinTable ==
    LET Row(t) == LET Cell(wh) == is_period_within_working_hours(t, wh)
                  IN  Tabulate(WorkingHoursTexts, Cell)
    IN  Tabulate(Texts, Row)

SuggestTable ==
    LET Row(t) ==
          LET Cell(wh) == suggest_alternative_periods(t, wh)
          IN  Tabulate(WorkingHoursTexts, Cell)
    IN  Tabulate(Texts, Row)

\* dict.get(field, "")
DictGet(d, key) == IF key \in DOMAIN d THEN d[key] ELSE ""

\* apply_valid_parsed_details raises when validate_field raises
apply_valid_parsed_details_raises(lib, parsed) ==
    \E field \in DOMAIN parsed :
        parsed[field] # "" /\ lib.validate[field][parsed[field]] = RAISED

apply_valid_parsed_details(lib, collected, parsed) ==
    LET accepted == {field \in DOMAIN parsed :
                        parsed[field] # "" /\ lib.validate[field][parsed[field]] = NULL}
        Merged(field) ==
            IF field \notin accepted THEN collected[field]
            ELSE IF field = "car_number" THEN lib.car[parsed[field]]
            ELSE IF field = "reservation_period" THEN lib.period[parsed[field]]
            ELSE parsed[field]
    IN  Tabulate(accepted \cup DOMAIN collected, Merged)

\* next_missing_field: the first field that is absent or blank, or NULL
next_missing_field(collected) ==
    LET missing == {i \in 1..Len(BOOKING_FIELDS) :
                       str_strip(DictGet(collected, BOOKING_FIELDS[i])) = ""}
    IN  IF missing = {} THEN NULL
        ELSE BOOKING_FIELDS[CHOOSE i \in missing : \A j \in missing : i <= j]

(***************************************************************************)
(* interactive_flow.py: prompts, rendering and response payloads.          *)
(***************************************************************************)
FIELD_PROMPTS ==
    [name |-> "Please provide your name.",
     surname |-> "Please provide your surname.",
     car_number |-> "What is your car number?",
     reservation_period |->
       "What reservation period would you like (e.g., 2026-02-20 09:00 to 2026-02-20 18:00)?"]

FIELD_LABELS ==
    [name |-> "Name", surname |-> "Surname", car_number |-> "Car number",
     reservation_period |-> "Reservation period"]

\* _next_field: the field after `current` in BOOKING_FIELDS, or NULL
_next_field(current) ==
    IF current = NULL \/ current \notin FieldSet THEN NULL
    ELSE LET idx == CHOOSE i \in 1..Len(BOOKING_FIELDS) : BOOKING_FIELDS[i] = current
         IN  IF idx + 1 <= Len(BOOKING_FIELDS) THEN BOOKING_FIELDS[idx + 1] ELSE NULL

_status_detail(status, collected) ==
    CASE status = "collecting" ->
           "Collecting details ("
           \o ToString(Cardinality({i \in 1..Len(BOOKING_FIELDS) :
                            str_strip(DictGet(collected, BOOKING_FIELDS[i])) # ""}))
           \o "/" \o ToString(Len(BOOKING_FIELDS)) \o " complete)."
      [] status = "review" ->
           "Review details, then send 'confirm' to submit, or 'edit <field>'."
      [] status = "pending" -> "Request submitted. Waiting for administrator decision."
      [] status = "approved" -> "Reservation is approved and recorded."
      [] status = "declined" -> "Reservation was declined by administrator."
      [] status = "cancelled" -> "Booking flow was cancelled."
      [] OTHER -> ""

RECURSIVE ReviewLines(_, _)
ReviewLines(collected, i) ==
    IF i > Len(BOOKING_FIELDS) THEN ""
    ELSE LET field == BOOKING_FIELDS[i]
             text  == str_strip(DictGet(collected, field))
         IN  "- " \o FIELD_LABELS[field] \o ": "
             \o (IF text = "" THEN "(missing)" ELSE text) \o "\n"
             \o ReviewLines(collected, i + 1)

_render_review_summary(collected) ==
    "Please review your booking details:\n" \o ReviewLines(collected, 1)
    \o "Send 'confirm' to submit, 'edit <field>' to change, or 'cancel booking'."

EDIT_VERBS == {"edit", "change", "update", "correct"}

EDIT_ALIASES ==
    [name |-> "name", surname |-> "surname", car |-> "car_number", plate |-> "car_number",
     car_number |-> "car_number", period |-> "reservation_period",
     reservation_period |-> "reservation_period"]

RECURSIVE SpacesToUnderscores(_)
SpacesToUnderscores(s) ==
    IF Len(s) = 0 THEN ""
    ELSE IF Len(s) = 1 THEN (IF s = " " THEN "_" ELSE s)
    ELSE SpacesToUnderscores(SubSeq(s, 1, Len(s) \div 2))
         \o SpacesToUnderscores(SubSeq(s, (Len(s) \div 2) + 1, Len(s)))

\* _extract_edit_field: ^(?:edit|change|update|correct)\s+([a-z_ ]+)$
_extract_edit_field(text) ==
    LET lowered == str_lower(str_strip(text))
        verbs   == {v \in EDIT_VERBS : str_startswith(lowered, v)}
        groups  == {SubSeq(lowered, SkipSpaces(lowered, Len(v) + 1), Len(lowered)) :
                      v \in {w \in verbs :
                               /\ SkipSpaces(lowered, Len(w) + 1) > Len(w) + 1
                               /\ SkipSpaces(lowered, Len(w) + 1) <= Len(lowered)
                               /\ AllIn(lowered, SkipSpaces(lowered, Len(w) + 1),
                                        Len(lowered), LowerSet \cup {"_", " "})}}
    IN  IF groups = {} THEN NULL
        ELSE LET raw == SpacesToUnderscores(str_strip(CHOOSE g \in groups : TRUE))
             IN  IF raw \in DOMAIN EDIT_ALIASES THEN EDIT_ALIASES[raw] ELSE NULL

EditTable == Tabulate(Texts, _extract_edit_field)

\* all the tables; run_chat_turn looks them up once per call
TextTables ==
    [strip |-> StripTable, cancel |-> CancelTable, intent |-> IntentTable,
     confirm |-> ConfirmTable, parsed |-> ParsedTable, edit |-> EditTable,
     validate |-> ValidateTable, car |-> CarTable, period |-> PeriodTable,
     hours |-> HoursTable, within |-> WithinTable, suggest |-> SuggestTable]

\* Optional payload entry: present only when `present` holds
Opt(key, present, value) == IF present THEN key :> value ELSE EmptyDict

\* _booking_response; the "progress" display block is not modelled.
\* request_id, action_required, review_summary and decided_at are passed as
\* NULL for None, alternatives as << >> for None; recorded and mcp_recorded
\* are always supplied by the callers.
_booking_response(response, status, pending_field, collected, request_id, action_required, review_summary, alternatives, decided_at, recorded, mcp_recorded) ==
    [response |-> response,
     mode |-> "booking",
     status |-> status,
     pending_field |-> pending_field,
     collected |-> collected,
     status_detail |-> _status_detail(status, collected),
     recorded |-> recorded,
     mcp_recorded |-> mcp_recorded]
    @@ Opt("request_id", request_id # NULL /\ request_id # "", request_id)
    @@ Opt("action_required", action_required # NULL, action_required)
    @@ Opt("review_summary", review_summary # NULL, review_summary)
    @@ Opt("alternatives", alternatives # << >>, alternatives)
    @@ Opt("decided_at", decided_at # NULL /\ decided_at # "", decided_at)

default_state ==
    [mode |-> "info",
     booking_active |-> FALSE,
     pending_field |-> NULL,
     collected |-> EmptyDict,
     request_id |-> NULL,
     status |-> "collecting",
     recorded |-> FALSE,
     mcp_recorded |-> FALSE,
     decided_at |-> NULL]

\* _state_with: the updates win over the base
_state_with(base, updates) == updates @@ base

(***************************************************************************)
(* interactive_flow.py: run_chat_turn.                                     *)
(*                                                                         *)
(* The result of a call is a record: raised (the call propagated an        *)
(* exception and returned nothing), payload and next_state (the returned   *)
(* pair), and the calls made on the collaborators: created (payloads       *)
(* passed to persistence.create_approval), appended (records passed to     *)
(* persistence.append_reservation that were stored), mcp (calls of the     *)
(* record_reservation callback: its four arguments, the request_id of the  *)
(* turn that made the call, and ok, whether the call returned) and asked   *)
(* (answer_question was called).                                           *)
(*                                                                         *)
(* env holds what the collaborators do in this call: append_fails,         *)
(* has_recorder (a record_reservation callback was supplied),              *)
(* recorder_fails, answer_fails, and the DynamicInfo row working_hours,    *)
(* available_spaces returned by get_dynamic_info().                        *)
(***************************************************************************)
Returned(payload, next_state) ==
    [raised |-> FALSE, payload |-> payload, next_state |-> next_state,
     created |-> << >>, appended |-> << >>, mcp |-> << >>, asked |-> FALSE]

Raised ==
    [raised |-> TRUE, payload |-> EmptyDict, next_state |-> EmptyDict,
     created |-> << >>, appended |-> << >>, mcp |-> << >>, asked |-> FALSE]

\* faulty variant of EmptyMessageTurn: the state is replaced by default_state
EmptyMessageTurn_resets(state) ==
    Returned([response |-> "Message cannot be empty.",
              mode |-> "info"],
             default_state)

\* lines 209-218: empty message
EmptyMessageTurn(state) ==
    LET current == IF state = EmptyDict THEN default_state ELSE state
    IN  Returned([response |-> "Message cannot be empty.",
                  mode |-> IF "mode" \in DOMAIN current THEN current.mode ELSE "info"],
                 current)

\* faulty variant of CancelTurn: the collected values and the request id stay
CancelTurn_keeps_booking(current) ==
    Returned([response |-> "Booking cancelled. You can start a new reservation anytime.",
              mode |-> "info",
              status |-> "cancelled"],
             _state_with(current,
                 [mode |-> "info", booking_active |-> FALSE, pending_field |-> NULL,
                  status |-> "cancelled", recorded |-> FALSE, mcp_recorded |-> FALSE,
                  decided_at |-> NULL]))

\* lines 229-249: cancel while a booking is active
CancelTurn(current) ==
    Returned([response |-> "Booking cancelled. You can start a new reservation anytime.",
              mode |-> "info",
              status |-> "cancelled"],
             _state_with(current,
                 [mode |-> "info", booking_active |-> FALSE, pending_field |-> NULL,
                  collected |-> EmptyDict, request_id |-> NULL, status |-> "cancelled",
                  recorded |-> FALSE, mcp_recorded |-> FALSE, decided_at |-> NULL]))

\* faulty variant of BookingIntentTurn: the wizard restarts but the request id
\* and the flags of the earlier booking stay
BookingIntentTurn_keeps_request(current) ==
    Returned(_booking_response(FIELD_PROMPTS["name"], "collecting", "name", EmptyDict,
                               NULL, "input", NULL, << >>, NULL, FALSE, FALSE),
             _state_with(current,
                 [mode |-> "booking", booking_active |-> TRUE, pending_field |-> "name",
                  collected |-> EmptyDict, status |-> "collecting"]))

\* lines 251-275: booking intent (re)starts the wizard
BookingIntentTurn(current) ==
    Returned(_booking_response(FIELD_PROMPTS["name"], "collecting", "name", EmptyDict,
                               NULL, "input", NULL, << >>, NULL, FALSE, FALSE),
             _state_with(current,
                 [mode |-> "booking", booking_active |-> TRUE, pending_field |-> "name",
                  collected |-> EmptyDict, status |-> "collecting", request_id |-> NULL,
                  recorded |-> FALSE, mcp_recorded |-> FALSE, decided_at |-> NULL]))

\* f"{collected.get('name', '').strip()} {collected.get('surname', '').strip()}".strip()
FullName(collected) ==
    str_strip(str_strip(DictGet(collected, "name")) \o " "
              \o str_strip(DictGet(collected, "surname")))

\* faulty variant of ApprovedNextState: the flags are stored but the thread
\* keeps waiting, so the next poll handles the approval again
ApprovedNextState_stays_pending(current, mcp_recorded, approval_time) ==
    _state_with(current,
        [recorded |-> TRUE, mcp_recorded |-> mcp_recorded, decided_at |-> approval_time])

\* faulty variant of ApprovedNextState: the approved turn leaves the state as it
\* found it, so the thread stays pending with recorded = False
ApprovedNextState_unchanged(current, mcp_recorded, approval_time) == current

\* lines 303-313: the state after an approved decision was handled
ApprovedNextState(current, mcp_recorded, approval_time) ==
    _state_with(current,
        [response |-> "Confirmed and recorded.", mode |-> "booking",
         booking_active |-> FALSE, pending_field |-> NULL, status |-> "approved",
         recorded |-> TRUE, mcp_recorded |-> mcp_recorded, decided_at |-> approval_time])

\* faulty variant of ShouldAppend: the approved turn never writes the ledger
ShouldAppend_never(recorded) == FALSE

\* line 283: the ledger append is guarded by the recorded flag
ShouldAppend(recorded) == ~recorded

\* line 292: the callback is guarded by its presence and the mcp_recorded flag
ShouldCallRecorder(has_recorder, mcp_recorded) == has_recorder /\ ~mcp_recorded

\* faulty variant of ApprovedTurn: the ledger record takes the time of the
\* turn instead of the decision's decided_at, and the car number is dropped
ApprovedTurn_wrong_entry(current, collected, request_id, recorded, mcp_recorded, decision, env) ==
    [Returned(_booking_response("Confirmed and recorded.", "approved", NULL, collected,
                                request_id, "none", NULL, << >>, decision.decided_at,
                                TRUE, mcp_recorded),
              _state_with(current,
                  [mode |-> "booking", booking_active |-> FALSE, pending_field |-> NULL,
                   status |-> "approved", recorded |-> TRUE,
                   mcp_recorded |-> mcp_recorded, decided_at |-> decision.decided_at]))
        EXCEPT !.appended = <<[request_id |-> request_id,
                               name |-> "",
                               car_number |-> "",
                               reservation_period |-> "",
                               approval_time |-> "now"]>>]

\* faulty variant of ApprovedTurn: a failing record_reservation callback undoes
\* the ledger append and the recorded flag
ApprovedTurn_rollback(current, collected, request_id, recorded, mcp_recorded, decision, env) ==
    LET approval_time == decision.decided_at
        entry == [request_id |-> request_id,
                  name |-> FullName(collected),
                  car_number |-> DictGet(collected, "car_number"),
                  reservation_period |-> DictGet(collected, "reservation_period"),
                  approval_time |-> approval_time]
        do_call == ShouldCallRecorder(env.has_recorder, mcp_recorded)
        failed  == do_call /\ env.recorder_fails
        call    == [request_id |-> request_id, name |-> entry.name,
                    car_number |-> entry.car_number,
                    reservation_period |-> entry.reservation_period,
                    approval_time |-> approval_time, ok |-> ~env.recorder_fails]
    IN  [Returned(_booking_response("Confirmed and recorded.", "approved", NULL, collected,
                                    request_id, "none", NULL, << >>, approval_time,
                                    ~failed, do_call /\ ~failed),
                  [ApprovedNextState(current, do_call /\ ~failed, approval_time)
                      EXCEPT !.recorded = ~failed])
            EXCEPT !.appended = IF ShouldAppend(recorded) /\ ~failed
                                THEN <<entry>> ELSE << >>,
                   !.mcp = IF do_call THEN <<call>> ELSE << >>]

\* lines 281-330: approved decision.  decided_at is always a non-empty
\* timestamp, so approval_time never falls back to the current time.
ApprovedTurn(current, collected, request_id, recorded, mcp_recorded, decision, env) ==
    LET approval_time == decision.decided_at
        entry == [request_id |-> request_id,
                  name |-> FullName(collected),
                  car_number |-> DictGet(collected, "car_number"),
                  reservation_period |-> DictGet(collected, "reservation_period"),
                  approval_time |-> approval_time]
        do_append == ShouldAppend(recorded)
        do_call   == ShouldCallRecorder(env.has_recorder, mcp_recorded)
        call_ok   == do_call /\ ~env.recorder_fails
        mcp_after == IF call_ok THEN TRUE ELSE mcp_recorded
        base == _booking_response("Confirmed and recorded.", "approved", NULL, collected,
                                  request_id, "none", NULL, << >>, approval_time,
                                  TRUE, mcp_after)
        payload == IF do_call /\ env.recorder_fails
                   THEN [base EXCEPT !.status_detail =
                            str_strip(str_strip(@) \o " (MCP file record failed: "
                                      \o "recorder unavailable" \o ")")]
                   ELSE base
    IN  IF do_append /\ env.append_fails THEN Raised
        ELSE [Returned(payload, ApprovedNextState(current, mcp_after, approval_time))
                EXCEPT !.appended = IF do_append THEN <<entry>> ELSE << >>,
                       !.mcp = IF do_call
                               THEN <<[request_id |-> request_id,
                                       name |-> entry.name,
                                       car_number |-> entry.car_number,
                                       reservation_period |-> entry.reservation_period,
                                       approval_time |-> approval_time,
                                       ok |-> ~env.recorder_fails]>>
                               ELSE << >>]

\* faulty variant of DeclinedTurn: the answer is "declined" but the thread
\* keeps waiting for the request
DeclinedTurn_stays_pending(current, collected, request_id, mcp_recorded, decision) ==
    Returned(_booking_response("Declined by administrator.", "declined", NULL,
                               collected, request_id, "none", NULL, << >>,
                               decision.decided_at, FALSE, mcp_recorded),
             current)

\* faulty variant of DeclinedTurn: the declined request is written to the
\* ledger
DeclinedTurn_appends(current, collected, request_id, mcp_recorded, decision) ==
    [Returned(_booking_response("Declined by administrator.", "declined", NULL,
                                collected, request_id, "none", NULL, << >>,
                                decision.decided_at, FALSE, mcp_recorded),
              _state_with(current,
                  [mode |-> "booking", booking_active |-> FALSE, pending_field |-> NULL,
                   status |-> "declined", recorded |-> FALSE,
                   mcp_recorded |-> mcp_recorded, decided_at |-> decision.decided_at]))
        EXCEPT !.appended = <<[request_id |-> request_id,
                               name |-> FullName(collected),
                               car_number |-> DictGet(collected, "car_number"),
                               reservation_period |-> DictGet(collected, "reservation_period"),
                               approval_time |-> decision.decided_at]>>]

\* lines 332-357: declined decision
DeclinedTurn(current, collected, request_id, mcp_recorded, decision) ==
    LET declined_at == decision.decided_at
    IN  Returned(_booking_response("Declined by administrator.", "declined", NULL,
                                   collected, request_id, "none", NULL, << >>,
                                   declined_at, FALSE, mcp_recorded),
                 _state_with(current,
                     [mode |-> "booking", booking_active |-> FALSE, pending_field |-> NULL,
                      status |-> "declined", recorded |-> FALSE,
                      mcp_recorded |-> mcp_recorded, decided_at |-> declined_at]))

\* faulty variant of StillPendingTurn: the poll counts as a second decision
\* request and stores a changed state
StillPendingTurn_touches(current, collected, request_id, recorded, mcp_recorded) ==
    Returned(_booking_response(
                 "Still pending administrator decision. Request id: " \o request_id,
                 "pending", NULL, collected, request_id, "await_admin_decision",
                 NULL, << >>, NULL, recorded, mcp_recorded),
             _state_with(current,
                 [mode |-> "booking", booking_active |-> TRUE, pending_field |-> NULL,
                  status |-> "pending", mcp_recorded |-> mcp_recorded,
                  decided_at |-> "polled"]))

\* lines 359-380: no decision yet
StillPendingTurn(current, collected, request_id, recorded, mcp_recorded) ==
    Returned(_booking_response(
                 "Still pending administrator decision. Request id: " \o request_id,
                 "pending", NULL, collected, request_id, "await_admin_decision",
                 NULL, << >>, NULL, recorded, mcp_recorded),
             _state_with(current,
                 [mode |-> "booking", booking_active |-> TRUE, pending_field |-> NULL,
                  status |-> "pending", mcp_recorded |-> mcp_recorded,
                  decided_at |-> NULL]))

\* persistence.get_approval(request_id).get("decision"), EmptyDict for None
DecisionOf(persistence, request_id) ==
    IF request_id \in DOMAIN persistence THEN persistence[request_id].decision ELSE EmptyDict

\* lines 277-380: status == "pending"
PendingTurn(current, collected, request_id, recorded, mcp_recorded, persistence, env) ==
    LET decision == DecisionOf(persistence, request_id)
    IN  IF decision # EmptyDict /\ decision.approved = TRUE
        THEN ApprovedTurn(current, collected, request_id, recorded, mcp_recorded,
                          decision, env)
        ELSE IF decision # EmptyDict /\ decision.approved = FALSE
        THEN DeclinedTurn(current, collected, request_id, mcp_recorded, decision)
        ELSE StillPendingTurn(current, collected, request_id, recorded, mcp_recorded)

\* faulty variant of ConfirmTurn: the approval is created twice
ConfirmTurn_twice(current, collected, new_request_id) ==
    [Returned(_booking_response("Submitted for approval. Request id: " \o new_request_id,
                                "pending", NULL, collected, new_request_id,
                                "await_admin_decision", NULL, << >>, NULL, FALSE, FALSE),
              _state_with(current,
                  [mode |-> "booking", booking_active |-> TRUE, pending_field |-> NULL,
                   collected |-> collected, request_id |-> new_request_id,
                   status |-> "pending", recorded |-> FALSE, mcp_recorded |-> FALSE,
                   decided_at |-> NULL]))
       EXCEPT !.created = <<collected, collected>>]

\* lines 383-416: confirm in review; new_request_id is what create_approval returns
ConfirmTurn(current, collected, new_request_id) ==
    [Returned(_booking_response("Submitted for approval. Request id: " \o new_request_id,
                                "pending", NULL, collected, new_request_id,
                                "await_admin_decision", NULL, << >>, NULL, FALSE, FALSE),
              _state_with(current,
                  [mode |-> "booking", booking_active |-> TRUE, pending_field |-> NULL,
                   collected |-> collected, request_id |-> new_request_id,
                   status |-> "pending", recorded |-> FALSE, mcp_recorded |-> FALSE,
                   decided_at |-> NULL]))
       EXCEPT !.created = <<[name |-> DictGet(collected, "name"),
                             surname |-> DictGet(collected, "surname"),
                             car_number |-> DictGet(collected, "car_number"),
                             reservation_period |->
                                 DictGet(collected, "reservation_period")]>>]

\* a turn that ends in status=review with the given collected values
ReviewResponse(collected, recorded, mcp_recorded) ==
    _booking_response(_render_review_summary(collected), "review", NULL, collected,
                      NULL, "review_confirmation", _render_review_summary(collected),
                      << >>, NULL, recorded, mcp_recorded)

\* a turn that ends in status=collecting asking for pending_field
PromptResponse(response, pending_field, collected, alternatives, recorded, mcp_recorded) ==
    _booking_response(response, "collecting", pending_field, collected, NULL, "input",
                      NULL, alternatives, NULL, recorded, mcp_recorded)

\* lines 418-468: shorthand in review
ReviewShorthandTurn(lib, current, collected, parsed) ==
    LET updated == apply_valid_parsed_details(lib, collected, parsed)
        missing == next_missing_field(updated)
    IN  IF apply_valid_parsed_details_raises(lib, parsed) THEN Raised
        ELSE IF missing # NULL
        THEN Returned(PromptResponse(FIELD_PROMPTS[missing], missing, updated, << >>,
                                     FALSE, FALSE),
                      _state_with(current,
                          [mode |-> "booking", booking_active |-> TRUE,
                           pending_field |-> missing, collected |-> updated,
                           status |-> "collecting", recorded |-> FALSE,
                           mcp_recorded |-> FALSE]))
        ELSE Returned(ReviewResponse(updated, FALSE, FALSE),
                      _state_with(current,
                          [mode |-> "booking", booking_active |-> TRUE,
                           pending_field |-> NULL, collected |-> updated,
                           status |-> "review", recorded |-> FALSE,
                           mcp_recorded |-> FALSE]))

\* faulty variant of EditTurn: the state goes back to collecting without a
\* pending field
EditTurn_without_field(current, collected, recorded, mcp_recorded, edit_field) ==
    Returned(PromptResponse(FIELD_PROMPTS[edit_field], edit_field, collected, << >>,
                            recorded, mcp_recorded),
             _state_with(current,
                 [mode |-> "booking", booking_active |-> TRUE, pending_field |-> NULL,
                  collected |-> collected, status |-> "collecting",
                  recorded |-> recorded, mcp_recorded |-> mcp_recorded]))

\* lines 470-493: edit <field> in review
EditTurn(current, collected, recorded, mcp_recorded, edit_field) ==
    Returned(PromptResponse(FIELD_PROMPTS[edit_field], edit_field, collected, << >>,
                            recorded, mcp_recorded),
             _state_with(current,
                 [mode |-> "booking", booking_active |-> TRUE, pending_field |-> edit_field,
                  collected |-> collected, status |-> "collecting",
                  recorded |-> recorded, mcp_recorded |-> mcp_recorded]))

\* faulty variant of ReviewTurn: a text that is no command sends the thread
\* back to collecting the period
ReviewTurn_reopens(lib, text, current, collected, recorded, mcp_recorded, new_request_id) ==
    LET parsed     == lib.parsed[text]
        edit_field == lib.edit[text]
    IN  IF lib.confirm[text] THEN ConfirmTurn(current, collected, new_request_id)
        ELSE IF parsed # EmptyDict THEN ReviewShorthandTurn(lib, current, collected, parsed)
        ELSE IF edit_field # NULL
        THEN EditTurn(current, collected, recorded, mcp_recorded, edit_field)
        ELSE Returned(ReviewResponse(collected, recorded, mcp_recorded),
                      _state_with(current,
                          [status |-> "collecting",
                           pending_field |-> "reservation_period"]))

\* lines 382-508: status == "review"
ReviewTurn(lib, text, current, collected, recorded, mcp_recorded, new_request_id) ==
    LET parsed     == lib.parsed[text]
        edit_field == lib.edit[text]
    IN  IF lib.confirm[text] THEN ConfirmTurn(current, collected, new_request_id)
        ELSE IF parsed # EmptyDict THEN ReviewShorthandTurn(lib, current, collected, parsed)
        ELSE IF edit_field # NULL
        THEN EditTurn(current, collected, recorded, mcp_recorded, edit_field)
        ELSE Returned(ReviewResponse(collected, recorded, mcp_recorded), current)

\* faulty variant of CollectingState: the turn that stays in the wizard
\* stores a request id although nothing has been submitted
CollectingState_marks_request(current, pending_field, collected, recorded, mcp_recorded) ==
    _state_with(current,
        [mode |-> "booking", booking_active |-> TRUE, pending_field |-> pending_field,
         collected |-> collected, status |-> "collecting", recorded |-> recorded,
         mcp_recorded |-> mcp_recorded, request_id |-> "req-0"])

\* the state of a turn that stays in (or returns to) collecting
CollectingState(current, pending_field, collected, recorded, mcp_recorded) ==
    _state_with(current,
        [mode |-> "booking", booking_active |-> TRUE, pending_field |-> pending_field,
         collected |-> collected, status |-> "collecting", recorded |-> recorded,
         mcp_recorded |-> mcp_recorded])

\* faulty variant of ReviewState: the last field leaves pending_field set
ReviewState_keeps_pending_field(current, collected) ==
    _state_with(current,
        [mode |-> "booking", booking_active |-> TRUE,
         pending_field |-> "reservation_period",
         collected |-> collected, request_id |-> NULL, status |-> "review",
         recorded |-> FALSE, mcp_recorded |-> FALSE, decided_at |-> NULL])

\* faulty variant of ReviewState: the last field submits the booking without
\* the review step
ReviewState_skips_review(current, collected) ==
    _state_with(current,
        [mode |-> "booking", booking_active |-> TRUE, pending_field |-> NULL,
         collected |-> collected, request_id |-> NULL, status |-> "pending",
         recorded |-> FALSE, mcp_recorded |-> FALSE, decided_at |-> NULL])

\* the state of a turn that completes the wizard (lines 517-528 and 693-704)
ReviewState(current, collected) ==
    _state_with(current,
        [mode |-> "booking", booking_active |-> TRUE, pending_field |-> NULL,
         collected |-> collected, request_id |-> NULL, status |-> "review",
         recorded |-> FALSE, mcp_recorded |-> FALSE, decided_at |-> NULL])

\* ' OR '.join(suggestions)
RECURSIVE JoinOr(_)
JoinOr(seq) ==
    IF seq = << >> THEN ""
    ELSE IF Len(seq) = 1 THEN seq[1]
    ELSE seq[1] \o " OR " \o JoinOr(Tail(seq))

\* lines 511-563: shorthand while collecting
CollectShorthandTurn(lib, current, collected, recorded, mcp_recorded, parsed) ==
    LET updated == apply_valid_parsed_details(lib, collected, parsed)
        missing == next_missing_field(updated)
    IN  IF apply_valid_parsed_details_raises(lib, parsed) THEN Raised
        ELSE IF missing = NULL
        THEN Returned(ReviewResponse(updated, FALSE, FALSE), ReviewState(current, updated))
        ELSE Returned(PromptResponse(FIELD_PROMPTS[missing], missing, updated, << >>,
                                     recorded, mcp_recorded),
                      CollectingState(current, missing, updated, recorded, mcp_recorded))

\* lines 565-595: the raw text fails validate_field
InvalidFieldTurn(lib, text, current, pending_field, collected, recorded, mcp_recorded, error, env) ==
    LET suggestions == IF pending_field = "reservation_period"
                       THEN lib.suggest[text][env.working_hours]
                       ELSE << >>
        detail == IF suggestions # << >>
                  THEN error \o " Try: " \o JoinOr(suggestions) \o "."
                  ELSE error
    IN  IF pending_field = "reservation_period"
           /\ lib.hours[env.working_hours].kind = "raise"
        THEN Raised
        ELSE Returned(PromptResponse("Invalid " \o pending_field \o ": " \o detail \o " "
                                         \o FIELD_PROMPTS[pending_field],
                                     pending_field, collected, suggestions,
                                     recorded, mcp_recorded),
                      CollectingState(current, pending_field, collected,
                                      recorded, mcp_recorded))

\* faulty variant of OutsideHoursTurn: the period is reported as outside the
\* working hours and stored all the same
OutsideHoursTurn_stores_period(lib, text, current, pending_field, collected, recorded, mcp_recorded, env) ==
    Returned(PromptResponse("Requested time is outside working hours ("
                                \o env.working_hours \o "). "
                                \o FIELD_PROMPTS[pending_field],
                            pending_field, collected, lib.suggest[text][env.working_hours],
                            recorded, mcp_recorded),
             CollectingState(current, pending_field,
                             (pending_field :> lib.period[text]) @@ collected,
                             recorded, mcp_recorded))

\* lines 597-630: the period lies outside the working hours
OutsideHoursTurn(lib, text, current, pending_field, collected, recorded, mcp_recorded, env) ==
    LET suggestions == lib.suggest[text][env.working_hours]
        error_text ==
            IF suggestions # << >>
            THEN "Requested time is outside working hours (" \o env.working_hours
                 \o "). Try: " \o JoinOr(suggestions) \o "."
            ELSE "Requested time is outside working hours (" \o env.working_hours \o ")."
    IN  Returned(PromptResponse(error_text \o " " \o FIELD_PROMPTS[pending_field],
                                pending_field, collected, suggestions,
                                recorded, mcp_recorded),
                 CollectingState(current, pending_field, collected, recorded, mcp_recorded))

\* lines 632-659: no space is available
NoSpacesTurn(lib, text, current, pending_field, collected, recorded, mcp_recorded, env) ==
    LET suggestions == lib.suggest[text][env.working_hours]
        unavailable_text ==
            IF suggestions # << >>
            THEN "No spaces are currently available for that period."
                 \o " Suggested alternatives: " \o JoinOr(suggestions) \o "."
            ELSE "No spaces are currently available for that period."
    IN  Returned(PromptResponse(unavailable_text \o " " \o FIELD_PROMPTS[pending_field],
                                pending_field, collected, suggestions,
                                recorded, mcp_recorded),
                 CollectingState(current, pending_field, collected, recorded, mcp_recorded))

\* lines 661-666: the normalized value that is stored
StoredValue(lib, pending_field, text) ==
    IF pending_field = "car_number" THEN lib.car[text]
    ELSE IF pending_field = "reservation_period" THEN lib.period[text]
    ELSE text

\* lines 661-717: the value is accepted
AcceptFieldTurn(lib, text, current, pending_field, collected, recorded, mcp_recorded) ==
    LET stored     == (pending_field :> StoredValue(lib, pending_field, text)) @@ collected
        next_field == _next_field(pending_field)
    IN  IF next_field # NULL
        THEN Returned(PromptResponse(FIELD_PROMPTS[next_field], next_field, stored, << >>,
                                     recorded, mcp_recorded),
                      CollectingState(current, next_field, stored, recorded, mcp_recorded))
        ELSE Returned(ReviewResponse(stored, FALSE, FALSE), ReviewState(current, stored))

\* faulty variant of CollectTurn: a period is accepted only when the
\* working-hours check answers True
CollectTurn_blocks_unknown(lib, text, current, pending_field, collected, recorded, mcp_recorded, env) ==
    LET parsed == lib.parsed[text]
        error  == lib.validate[pending_field][text]
        within_hours == lib.within[text][env.working_hours]
    IN  IF parsed # EmptyDict
        THEN CollectShorthandTurn(lib, current, collected, recorded, mcp_recorded, parsed)
        ELSE IF error = RAISED THEN Raised
        ELSE IF error # NULL
        THEN InvalidFieldTurn(lib, text, current, pending_field, collected, recorded,
                              mcp_recorded, error, env)
        ELSE IF pending_field = "reservation_period" /\ within_hours = RAISED THEN Raised
        ELSE IF pending_field = "reservation_period" /\ within_hours # "True"
        THEN OutsideHoursTurn(lib, text, current, pending_field, collected, recorded,
                              mcp_recorded, env)
        ELSE IF pending_field = "reservation_period" /\ env.available_spaces <= 0
        THEN NoSpacesTurn(lib, text, current, pending_field, collected, recorded,
                          mcp_recorded, env)
        ELSE AcceptFieldTurn(lib, text, current, pending_field, collected, recorded,
                             mcp_recorded)

\* lines 510-717: a field is awaited
CollectTurn(lib, text, current, pending_field, collected, recorded, mcp_recorded, env) ==
    LET parsed == lib.parsed[text]
        error  == lib.validate[pending_field][text]
        within_hours == lib.within[text][env.working_hours]
    IN  IF parsed # EmptyDict
        THEN CollectShorthandTurn(lib, current, collected, recorded, mcp_recorded, parsed)
        ELSE IF error = RAISED THEN Raised
        ELSE IF error # NULL
        THEN InvalidFieldTurn(lib, text, current, pending_field, collected, recorded,
                              mcp_recorded, error, env)
        ELSE IF pending_field = "reservation_period" /\ within_hours = RAISED THEN Raised
        ELSE IF pending_field = "reservation_period" /\ within_hours = "False"
        THEN OutsideHoursTurn(lib, text, current, pending_field, collected, recorded,
                              mcp_recorded, env)
        ELSE IF pending_field = "reservation_period" /\ env.available_spaces <= 0
        THEN NoSpacesTurn(lib, text, current, pending_field, collected, recorded,
                          mcp_recorded, env)
        ELSE AcceptFieldTurn(lib, text, current, pending_field, collected, recorded,
                             mcp_recorded)

APOLOGY ==
    "I cannot answer right now because the AI provider is unavailable. "
    \o "Please retry in a moment or start a booking request."

\* answer_question is an opaque collaborator: its text is a function of the question
AnswerText(text) == "<answer>"

\* faulty variant of InfoTurn: a failure of answer_question is not caught
InfoTurn_propagates(text, current, env) ==
    IF env.answer_fails THEN Raised
    ELSE [Returned([response |-> AnswerText(text),
                    mode |-> "info",
                    status |-> "collecting"],
                   _state_with(current,
                       [mode |-> "info", booking_active |-> FALSE, pending_field |-> NULL,
                        collected |-> EmptyDict, request_id |-> NULL,
                        status |-> "collecting", recorded |-> FALSE,
                        mcp_recorded |-> FALSE, decided_at |-> NULL]))
            EXCEPT !.asked = TRUE]

\* lines 719-745: no booking in progress
InfoTurn(text, current, env) ==
    [Returned([response |-> IF env.answer_fails THEN APOLOGY ELSE AnswerText(text),
               mode |-> "info",
               status |-> "collecting"],
              _state_with(current,
                  [mode |-> "info", booking_active |-> FALSE, pending_field |-> NULL,
                   collected |-> EmptyDict, request_id |-> NULL, status |-> "collecting",
                   recorded |-> FALSE, mcp_recorded |-> FALSE, decided_at |-> NULL]))
       EXCEPT !.asked = TRUE]

\* bool(x) of a string-or-None field
Truthy(x) == x # NULL /\ x # ""

\* lines 201-745
run_chat_turn(message, state, persistence, env, new_request_id) ==
    Bind(TextTables, LAMBDA lib :
    Bind(lib.strip[message], LAMBDA text :
    Bind(_state_with(default_state, state), LAMBDA current :
    LET booking_active == current.booking_active
        pending_field  == current.pending_field
        collected      == current.collected
        status         == current.status
        request_id     == current.request_id
        recorded       == current.recorded
        mcp_recorded   == current.mcp_recorded
    IN  IF text = "" THEN EmptyMessageTurn(state)
        ELSE IF booking_active /\ lib.cancel[text] THEN CancelTurn(current)
        ELSE IF lib.intent[text] THEN BookingIntentTurn(current)
        ELSE IF booking_active /\ status = "pending" /\ Truthy(request_id)
        THEN PendingTurn(current, collected, request_id, recorded, mcp_recorded,
                         persistence, env)
        ELSE IF booking_active /\ status = "review"
        THEN ReviewTurn(lib, text, current, collected, recorded, mcp_recorded,
                        new_request_id)
        ELSE IF booking_active /\ Truthy(pending_field)
        THEN CollectTurn(lib, text, current, pending_field, collected, recorded,
                         mcp_recorded, env)
        ELSE InfoTurn(text, current, env))))

(***************************************************************************)
(* State.                                                                  *)
(***************************************************************************)
VARIABLES
    threads,       \* InMemoryPersistence.threads: thread_id -> state dict
    approvals,     \* InMemoryPersistence.approvals: request_id -> approval
    reservations,  \* InMemoryPersistence.reservations: the ledger, oldest first
    clock,         \* number of timestamps _utc_now() has handed to decisions
    mcp_log,       \* calls received by the record_reservation callback
    last,          \* the chat turn taken by the latest step (NoTurn if it took none)
    inflight,      \* Turn Host requests in progress: worker -> request
    STORE,         \* admin_store.STORE: request_id -> admin request
    admin_last,    \* the admin endpoint called by the latest step and its answer
    suggested,     \* the latest call of suggest_alternative_periods and its outcome
    _hits,         \* SlidingWindowRateLimiter._hits: key -> deque of hit times
    monotonic,     \* time.monotonic(), in whole seconds
    allow_calls,   \* calls of allow in progress: worker -> call
    granted,       \* history: key -> time -> number of calls that read that time
                   \* and returned allowed=True
    allow_last,    \* the call of allow that returned in the latest step
    durable        \* _run_chat_turn with DURABLE_BASE_URL: the request in progress
                   \* and the orchestration it started

vars == <<threads, approvals, reservations, clock, mcp_log, last, inflight,
          STORE, admin_last, suggested, _hits, monotonic, allow_calls, granted,
          allow_last, durable>>

\* the state of the chat engine, its persistence and the Turn Host
chat_vars == <<threads, approvals, reservations, clock, mcp_log, last, inflight>>

\* the state of the admin endpoints of web_demo_server.py
admin_vars == <<STORE, admin_last>>

\* the state of the rate limiter of http_security.py
limiter_vars == <<_hits, monotonic, allow_calls, granted, allow_last>>

\* the state of the components that are exercised on their own
unit_vars == <<suggested, limiter_vars, durable>>

(***************************************************************************)
(* persistence.py: InMemoryPersistence.                                    *)
(***************************************************************************)
\* get_thread: a copy of the stored state, EmptyDict for None
get_thread(thread_id) ==
    IF thread_id \in DOMAIN threads THEN threads[thread_id] ELSE EmptyDict

\* faulty variant of upsert_thread: one state is kept for all threads
upsert_thread_shared(thrs, thread_id, state) ==
    [t \in DOMAIN thrs \cup {thread_id} |-> state]

\* upsert_thread
upsert_thread(thrs, thread_id, state) ==
    (thread_id :> state) @@ thrs

\* uuid4() of create_approval: an identifier that was never used before
NewRequestId(apps) == "req-" \o ToString(Cardinality(DOMAIN apps) + 1)

\* create_approval (created_at is not modelled)
create_approval(apps, payload) ==
    (NewRequestId(apps) :> [request_id |-> NewRequestId(apps),
                            payload |-> payload,
                            decision |-> EmptyDict]) @@ apps

\* list_pending_approvals: the requests without a decision
list_pending_approvals(apps) ==
    {request_id \in DOMAIN apps : apps[request_id].decision = EmptyDict}

\* faulty variant of set_approval_decision: deciding a decided request again
\* clears its decision
set_approval_decision_clears(apps, request_id, approved, now) ==
    IF request_id \notin DOMAIN apps THEN apps
    ELSE IF apps[request_id].decision # EmptyDict
    THEN [apps EXCEPT ![request_id].decision = EmptyDict]
    ELSE [apps EXCEPT ![request_id].decision =
              [approved |-> approved, decided_at |-> now, notes |-> NULL]]

\* set_approval_decision: the stored decision is replaced
set_approval_decision(apps, request_id, approved, now) ==
    IF request_id \notin DOMAIN apps THEN apps
    ELSE [apps EXCEPT ![request_id].decision =
              [approved |-> approved, decided_at |-> now, notes |-> NULL]]

\* append_reservation (id, spot_id, start_at, end_at, created_at are not modelled)
append_reservation(ledger, entry) == Append(ledger, entry)

UtcNow(n) == "T" \o ToString(n)

(***************************************************************************)
(* admin_store.py: the module-level STORE behind the admin endpoints of    *)
(* web_demo_server.py.                                                     *)
(***************************************************************************)
\* uuid4() of create_admin_request: an identifier that was never used before
NewAdminRequestId(store) == "adm-" \o ToString(Cardinality(DOMAIN store) + 1)

\* create_admin_request (created_at is not modelled)
create_admin_request(store, payload) ==
    (NewAdminRequestId(store) :> [request_id |-> NewAdminRequestId(store),
                                  payload |-> payload,
                                  decision |-> EmptyDict]) @@ store

\* list_pending_requests: the ids of the entries without a decision
list_pending_requests(store) ==
    {request_id \in DOMAIN store : store[request_id].decision = EmptyDict}

\* get_admin_decision: EmptyDict for None
get_admin_decision(store, request_id) ==
    IF request_id \in DOMAIN store THEN store[request_id].decision ELSE EmptyDict

\* post_admin_decision: the store after the call (unchanged for an unknown id)
post_admin_decision(store, request_id, approved, now) ==
    IF request_id \notin DOMAIN store THEN store
    ELSE [store EXCEPT ![request_id].decision =
              [approved |-> approved, decided_at |-> now, notes |-> NULL]]

(***************************************************************************)
(* http_security.py: SlidingWindowRateLimiter.                             *)
(***************************************************************************)
\* the keys of enforce_rate_limit: f"{scope}:{client_ip(req)}"
RateKeys == {"chat:10.0.0.1", "chat:10.0.0.2"}

\* no call of allow: pc is "idle"; a call that has read the clock has pc
\* "read"; a call that returned is kept in allow_last with pc "done"
NoAllowCall == [pc |-> "idle", key |-> NULL, now |-> 0, allowed |-> FALSE, retry_after |-> 0]

\* self._hits.get(key), an empty deque when the key is new (lines 63-66)
HitsOf(hits, key) == IF key \in DOMAIN hits THEN hits[key] ELSE << >>

\* lines 68-69: while hits and hits[0] <= cutoff: hits.popleft()
RECURSIVE popleft_expired(_, _)
popleft_expired(hits, cutoff) ==
    IF hits # << >> /\ Head(hits) <= cutoff THEN popleft_expired(Tail(hits), cutoff)
    ELSE hits

\* lines 71-73: int(window_seconds - max(0.0, now - hits[0])), at least 1
RetryAfter(hits, now) ==
    LET elapsed == IF now - Head(hits) > 0 THEN now - Head(hits) ELSE 0
        retry_after == window_seconds - elapsed
    IN  IF retry_after > 1 THEN retry_after ELSE 1

\* suggest_alternative_periods was not called yet
NoSuggestion == [period |-> NULL, working_hours |-> NULL, raised |-> FALSE, result |-> << >>]

\* no admin endpoint was called yet
NoAdminCall == [endpoint |-> NULL, request_id |-> NULL, status_code |-> 0, listed |-> {}]

NoTurn == [thread |-> NULL, message |-> NULL, prior_status |-> NULL, raised |-> FALSE,
           payload |-> EmptyDict]

\* the record kept in `last` for a finished call of run_chat_turn: the message
\* it was given, the status of the state it was given, and the payload the
\* caller received, or that the call raised
TurnRecord(thread_id, message, prior, r) ==
    [thread |-> thread_id, message |-> message,
     prior_status |-> _state_with(default_state, prior).status,
     raised |-> r.raised, payload |-> r.payload]

RECURSIVE CreateAll(_, _)
CreateAll(apps, payloads) ==
    IF payloads = << >> THEN apps
    ELSE CreateAll(create_approval(apps, Head(payloads)), Tail(payloads))

RECURSIVE AppendAll(_, _)
AppendAll(ledger, entries) ==
    IF entries = << >> THEN ledger
    ELSE AppendAll(append_reservation(ledger, Head(entries)), Tail(entries))

\* a Turn Host worker that handles no request
Idle == [pc |-> "idle", thread |-> NULL, message |-> NULL, prior |-> EmptyDict,
         next_state |-> EmptyDict, created |-> 0, appended |-> 0]

\* no request is in _run_chat_turn and no orchestration is running.  created,
\* appended and applied record what the handling of the current message has
\* done so far: approval requests created, ledger records appended, and which
\* of the activity and the local turn stored a state.
NoDurableCall ==
    [pc |-> "idle", thread |-> NULL, message |-> NULL, prior |-> EmptyDict,
     next_state |-> EmptyDict, durable_error |-> FALSE,
     activity |-> "none", activity_prior |-> EmptyDict, activity_next |-> EmptyDict,
     output |-> EmptyDict, applied |-> {}, created |-> 0, appended |-> 0]

Init ==
    /\ threads = EmptyDict
    /\ approvals = EmptyDict
    /\ reservations = << >>
    /\ clock = 0
    /\ mcp_log = << >>
    /\ last = NoTurn
    /\ inflight = [w \in Workers |-> Idle]
    /\ STORE = EmptyDict
    /\ admin_last = NoAdminCall
    /\ suggested = NoSuggestion
    /\ _hits = EmptyDict
    /\ monotonic = 0
    /\ allow_calls = [w \in Workers |-> NoAllowCall]
    /\ granted = [key \in RateKeys |-> [t \in 0..MaxTime |-> 0]]
    /\ allow_last = NoAllowCall
    /\ durable = NoDurableCall

(***************************************************************************)
(* web_demo_server.py: _run_chat_turn without DURABLE_BASE_URL, one request *)
(* at a time: load the state, run the turn, store the returned state.  A    *)
(* call that raises stores nothing (chat_message answers 502).              *)
(***************************************************************************)
ChatTurn(thread_id, message, env) ==
    \E r \in {run_chat_turn(message, get_thread(thread_id), approvals, env,
                            NewRequestId(approvals))} :
        /\ Len(r.created) > 0 => Cardinality(DOMAIN approvals) < MaxRequests
        /\ approvals' = CreateAll(approvals, r.created)
        /\ reservations' = AppendAll(reservations, r.appended)
        /\ mcp_log' = mcp_log \o r.mcp
        /\ threads' = IF r.raised THEN threads
                      ELSE upsert_thread(threads, thread_id, r.next_state)
        /\ last' = TurnRecord(thread_id, message, get_thread(thread_id), r)
        /\ UNCHANGED <<clock, inflight>>
        /\ UNCHANGED <<admin_vars, unit_vars>>

\* The administrator decides a request (persistence.set_approval_decision).
AdminDecision(request_id, approved) ==
    /\ request_id \in DOMAIN approvals
    /\ clock < MaxDecisions
    /\ clock' = clock + 1
    /\ approvals' = set_approval_decision(approvals, request_id, approved, UtcNow(clock + 1))
    /\ last' = NoTurn
    /\ UNCHANGED <<threads, reservations, mcp_log, inflight>>
    /\ UNCHANGED <<admin_vars, unit_vars>>

Next ==
    \/ \E thread_id \in ThreadIds, message \in Messages, env \in Envs :
           ChatTurn(thread_id, message, env)
    \/ \E request_id \in DOMAIN approvals, approved \in BOOLEAN :
           AdminDecision(request_id, approved)

Spec == Init /\ [][Next]_vars

(***************************************************************************)
(* web_demo_server.py: _run_chat_turn when requests are handled             *)
(* concurrently.  chat_message is a synchronous endpoint, so the server     *)
(* runs each request on a worker thread; the durable activity main takes    *)
(* the same three steps.  Each persistence call is atomic (it holds the     *)
(* store's lock), the three steps of a request are not.                     *)
(***************************************************************************)
\* the messages of the concurrent requests (chat_message rejects empty ones)
HostMessages ==
    {"I want to reserve a spot",
     "name: O'Neil; surname: O'Neil; car: AA1234; period: " \o PERIOD_OK,
     "confirm it."}

\* line 335: prior_state = persistence.get_thread(thread_id)
HostLoad(w, thread_id, message) ==
    /\ inflight[w].pc = "idle"
    /\ inflight' = [inflight EXCEPT ![w] =
                       [Idle EXCEPT !.pc = "loaded", !.thread = thread_id,
                                    !.message = message,
                                    !.prior = get_thread(thread_id)]]
    /\ UNCHANGED <<threads, approvals, reservations, clock, mcp_log, last>>
    /\ UNCHANGED <<admin_vars, unit_vars>>

\* lines 355-361: run_chat_turn on the state that was loaded; a call that
\* raises ends the request (chat_message answers 502)
HostRun(w, env) ==
    /\ inflight[w].pc = "loaded"
    /\ \E r \in {run_chat_turn(inflight[w].message, inflight[w].prior, approvals, env,
                                NewRequestId(approvals))} :
           /\ Len(r.created) > 0 => Cardinality(DOMAIN approvals) < MaxHostRequests
           /\ approvals' = CreateAll(approvals, r.created)
           /\ reservations' = AppendAll(reservations, r.appended)
           /\ mcp_log' = mcp_log \o r.mcp
           /\ inflight' = [inflight EXCEPT ![w] =
                              IF r.raised THEN Idle
                              ELSE [@ EXCEPT !.pc = "ran", !.next_state = r.next_state,
                                             !.created = Len(r.created),
                                             !.appended = Len(r.appended)]]
    /\ UNCHANGED <<threads, clock, last>>
    /\ UNCHANGED <<admin_vars, unit_vars>>

\* line 362: persistence.upsert_thread(thread_id, next_state)
HostUpsert(w) ==
    /\ inflight[w].pc = "ran"
    /\ threads' = upsert_thread(threads, inflight[w].thread, inflight[w].next_state)
    /\ inflight' = [inflight EXCEPT ![w] = Idle]
    /\ UNCHANGED <<approvals, reservations, clock, mcp_log, last>>
    /\ UNCHANGED <<admin_vars, unit_vars>>

\* The administrator decides one of the requests that the admin UI lists as
\* pending (list_pending_approvals).
HostDecision(request_id, approved) ==
    /\ request_id \in list_pending_approvals(approvals)
    /\ AdminDecision(request_id, approved)

\* The collaborators of a call in which nothing fails and a record_reservation
\* callback is supplied.
NormalEnv == CHOOSE e \in Envs : Deviations(e) = 0

\* the text of a status poll: not empty, no cancel command, no booking intent
STATUS_POLL == "x"

\* The client keeps asking for the status of its thread (the web UI and the
\* bot adapters send one turn per user message), and the collaborators are
\* eventually available.
PollTurn ==
    \E thread_id \in ThreadIds : ChatTurn(thread_id, STATUS_POLL, NormalEnv)

FairSpec == Spec /\ WF_vars(PollTurn)

(***************************************************************************)
(* The wizard alone: one thread, the texts of WizardMessages, and a        *)
(* DynamicInfo row whose working hours and free spaces vary between turns.  *)
(***************************************************************************)
WizardEnvs ==
    {e \in AllEnvs : /\ ~e.append_fails /\ e.has_recorder
                     /\ ~e.recorder_fails /\ ~e.answer_fails}

WizardTurn ==
    \E message \in WizardMessages, env \in WizardEnvs : ChatTurn("t1", message, env)

WizardSpec == Init /\ [][WizardTurn]_vars

(***************************************************************************)
(* The review step alone: one thread, the texts of ReviewMessages, working  *)
(* collaborators and the default DynamicInfo row.                           *)
(***************************************************************************)
ReviewRunTurn == \E message \in ReviewMessages : ChatTurn("t1", message, NormalEnv)

ReviewSpec == Init /\ [][ReviewRunTurn]_vars

HostNext ==
    \/ \E w \in Workers, thread_id \in ThreadIds, message \in HostMessages :
           HostLoad(w, thread_id, message)
    \/ \E w \in Workers : HostRun(w, NormalEnv)
    \/ \E w \in Workers : HostUpsert(w)
    \/ \E request_id \in DOMAIN approvals, approved \in BOOLEAN :
           HostDecision(request_id, approved)

HostSpec == Init /\ [][HostNext]_vars

(***************************************************************************)
(* web_demo_server.py: _run_chat_turn for two conversations that share one *)
(* persistence, one request at a time.                                     *)
(***************************************************************************)
TwoThreads == {"t1", "t2"}

\* the texts of the two chat clients
ThreadMessages ==
    {"I want to reserve a spot", "O'Neil", SHORTHAND_FULL, "confirm it.", "cancel",
     STATUS_POLL}

ThreadTurn ==
    \E thread_id \in TwoThreads, message \in ThreadMessages :
        ChatTurn(thread_id, message, NormalEnv)

ThreadsNext ==
    \/ ThreadTurn
    \/ \E request_id \in DOMAIN approvals, approved \in BOOLEAN :
           AdminDecision(request_id, approved)

ThreadsSpec == Init /\ [][ThreadsNext]_vars

(***************************************************************************)
(* web_demo_server.py: _run_chat_turn with DURABLE_BASE_URL configured.     *)
(* The request loads the thread state, starts an orchestration for a       *)
(* booking thread or a reservation intent and polls its status; when       *)
(* _invoke_durable_chat raises it runs the turn locally on the state it    *)
(* loaded.  The orchestration runs run_chat_turn_activity.main on the same *)
(* persistence, at its own pace.  MCP_RECORD_RESERVATIONS has its default  *)
(* (enabled) and the recorder works.                                       *)
(***************************************************************************)
\* the texts of the chat client (chat_message answers 400 to an empty one)
DurableMessages ==
    {"I want to reserve a spot", SHORTHAND_FULL, "confirm it.", STATUS_POLL}

\* cli.is_reservation_intent
is_reservation_intent(text) ==
    ParsedTable[text] # EmptyDict \/ IntentTable[text]

\* lines 339-341: the message goes to the Durable backend
UsesDurable(prior_state, message) ==
    \/ DictGet(prior_state, "mode") = "booking"
    \/ is_reservation_intent(StripTable[message])

\* the collaborators of the activity: no record_reservation callback, and
\* _durable_answer_question cannot fail
ActivityEnv ==
    [NormalEnv EXCEPT !.has_recorder = FALSE]

\* lines 334-341: persistence = get_persistence(); prior_state = get_thread;
\* the message goes to Durable (pc "durable") or to the local turn (pc
\* "local").  A new request is taken when the orchestration of the previous one has
\* ended.
DurableLoad(thread_id, message) ==
    /\ durable.pc = "idle"
    /\ durable.activity \in {"none", "done", "failed"}
    /\ durable' = [NoDurableCall EXCEPT
                      !.pc = IF UsesDurable(get_thread(thread_id), message)
                             THEN "durable" ELSE "local",
                      !.thread = thread_id,
                      !.message = message,
                      !.prior = get_thread(thread_id)]
    /\ UNCHANGED <<chat_vars, admin_vars, suggested, limiter_vars>>

\* lines 259-264: POST /api/chat/start answered with a statusQueryGetUri;
\* ChatStart has started chat_orchestrator
DurableStart ==
    /\ durable.pc = "durable"
    /\ durable' = [durable EXCEPT !.pc = "started", !.activity = "queued"]
    /\ UNCHANGED <<chat_vars, admin_vars, suggested, limiter_vars>>

\* lines 259-264: the start request fails or its answer has no
\* statusQueryGetUri; no orchestration runs
DurableStartRaises ==
    /\ durable.pc = "durable"
    /\ durable' = [durable EXCEPT !.pc = "local", !.durable_error = TRUE]
    /\ UNCHANGED <<chat_vars, admin_vars, suggested, limiter_vars>>

\* run_chat_turn_activity.main lines 33-34
ActivityLoad ==
    /\ durable.activity = "queued"
    /\ durable' = [durable EXCEPT !.activity = "loaded",
                                  !.activity_prior = get_thread(durable.thread)]
    /\ UNCHANGED <<chat_vars, admin_vars, suggested, limiter_vars>>

\* run_chat_turn_activity.main lines 41-50
ActivityUpsert ==
    /\ durable.activity = "ran"
    /\ threads' = upsert_thread(threads, durable.thread, durable.activity_next)
    /\ durable' = [durable EXCEPT !.activity = "done",
                                  !.applied = @ \cup {"activity"}]
    /\ UNCHANGED <<approvals, reservations, clock, mcp_log, last, inflight>>
    /\ UNCHANGED <<admin_vars, suggested, limiter_vars>>

\* _maybe_record_mcp_after_durable lines 72-84: the call is made for an
\* approved result that is not yet flagged
RecordsAfterDurable(result) ==
    /\ DictGet(result, "mode") = "booking"
    /\ DictGet(result, "status") = "approved"
    /\ DictGet(result, "mcp_recorded") # TRUE
    /\ FullName(result.collected) # ""
    /\ str_strip(DictGet(result.collected, "car_number")) # ""
    /\ str_strip(DictGet(result.collected, "reservation_period")) # ""

\* _maybe_record_mcp_after_durable lines 102-107: the flag is written into
\* the state that is stored now
FlaggedState(state, approval_time) ==
    _state_with(state,
        [mcp_recorded |-> TRUE,
         decided_at |-> IF "decided_at" \in DOMAIN state /\ state.decided_at # NULL
                        THEN state.decided_at ELSE approval_time])

\* lines 279-285 and 343-350: the poll reads runtimeStatus Completed; the
\* output is returned after _maybe_record_mcp_after_durable
DurableCompleted ==
    /\ durable.pc = "started"
    /\ durable.activity = "done"
    /\ IF RecordsAfterDurable(durable.output)
       THEN /\ mcp_log' = Append(mcp_log,
                              [request_id |-> NULL,
                               name |-> FullName(durable.output.collected),
                               car_number |-> str_strip(durable.output.collected["car_number"]),
                               reservation_period |->
                                   str_strip(durable.output.collected["reservation_period"]),
                               approval_time |-> durable.output.decided_at,
                               ok |-> TRUE])
            /\ threads' = upsert_thread(threads, durable.thread,
                              FlaggedState(get_thread(durable.thread),
                                           durable.output.decided_at))
       ELSE UNCHANGED <<threads, mcp_log>>
    /\ durable' = [durable EXCEPT !.pc = "idle"]
    /\ UNCHANGED <<approvals, reservations, clock, last, inflight>>
    /\ UNCHANGED <<admin_vars, suggested, limiter_vars>>

\* lines 276-291 and 351-352: _invoke_durable_chat raises after the start,
\* because the deadline passed before the status was Completed, a status
\* request failed, or the orchestration ended as Failed
DurableRaises ==
    /\ durable.pc = "started"
    /\ durable' = [durable EXCEPT !.pc = "local", !.durable_error = TRUE]
    /\ UNCHANGED <<chat_vars, admin_vars, suggested, limiter_vars>>

\* run_chat_turn as one of the two hosts calls it.  The activity
\* (run_chat_turn_activity.main lines 35-40) runs it on the state the
\* activity loaded, and when it raises the orchestration ends as Failed.  The
\* local turn (web_demo_server.py lines 354-361) runs it on the state loaded
\* at line 335, for a message that does not go to Durable or after
\* durable_error was set, and when it raises the request ends.
HostedRun(runner) ==
    /\ runner = "activity" => durable.activity = "loaded"
    /\ runner = "local" => durable.pc = "local"
    /\ \E prior_state \in {IF runner = "activity" THEN durable.activity_prior
                           ELSE durable.prior},
          env \in {IF runner = "activity" THEN ActivityEnv ELSE NormalEnv} :
       \E r \in {run_chat_turn(durable.message, prior_state, approvals, env,
                                NewRequestId(approvals))} :
           /\ Len(r.created) > 0 => Cardinality(DOMAIN approvals) < MaxHostRequests
           /\ approvals' = CreateAll(approvals, r.created)
           /\ reservations' = AppendAll(reservations, r.appended)
           /\ mcp_log' = mcp_log \o r.mcp
           /\ durable' =
                  IF r.raised
                  THEN (IF runner = "activity"
                        THEN [durable EXCEPT !.activity = "failed"]
                        ELSE [durable EXCEPT !.pc = "idle"])
                  ELSE IF runner = "activity"
                  THEN [durable EXCEPT !.activity = "ran",
                                       !.activity_next = r.next_state,
                                       !.output = r.payload,
                                       !.created = @ + Len(r.created),
                                       !.appended = @ + Len(r.appended)]
                  ELSE [durable EXCEPT !.pc = "ran",
                                       !.next_state = r.next_state,
                                       !.created = @ + Len(r.created),
                                       !.appended = @ + Len(r.appended)]
    /\ UNCHANGED <<threads, clock, last, inflight>>
    /\ UNCHANGED <<admin_vars, suggested, limiter_vars>>

\* lines 362-376: persistence.upsert_thread(thread_id, next_state)
LocalUpsert ==
    /\ durable.pc = "ran"
    /\ threads' = upsert_thread(threads, durable.thread, durable.next_state)
    /\ durable' = [durable EXCEPT !.pc = "idle", !.applied = @ \cup {"local"}]
    /\ UNCHANGED <<approvals, reservations, clock, mcp_log, last, inflight>>
    /\ UNCHANGED <<admin_vars, suggested, limiter_vars>>

DurableNext ==
    \/ \E message \in DurableMessages : DurableLoad("t1", message)
    \/ DurableStart
    \/ DurableStartRaises
    \/ ActivityLoad
    \/ \E runner \in {"activity", "local"} : HostedRun(runner)
    \/ ActivityUpsert
    \/ DurableCompleted
    \/ DurableRaises
    \/ LocalUpsert
    \/ \E request_id \in DOMAIN approvals, approved \in BOOLEAN :
           HostDecision(request_id, approved)

DurableSpec == Init /\ [][DurableNext]_vars

(***************************************************************************)
(* web_demo_server.py: the chat endpoint and the admin endpoints of one    *)
(* process.  POST /chat/message runs a turn on get_persistence(); the      *)
(* admin endpoints call admin_store.                                       *)
(***************************************************************************)
\* the texts of the chat client (chat_message answers 400 to an empty one)
WebMessages ==
    {"I want to reserve a spot", SHORTHAND_FULL, "confirm it.", STATUS_POLL}

\* the RequestIn body of POST /admin/request
AdminPayload ==
    [name |-> "O'Neil", surname |-> "O'Neil", car_number |-> "AA1234",
     reservation_period |-> PERIOD_OK]

\* POST /chat/message (lines 552-566 and _run_chat_turn)
chat_message(message) ==
    ChatTurn("t1", message, NormalEnv)

\* POST /admin/request (lines 589-592)
create_request ==
    /\ Cardinality(DOMAIN STORE) < MaxAdminRequests
    /\ STORE' = create_admin_request(STORE, AdminPayload)
    /\ admin_last' = [endpoint |-> "/admin/request",
                      request_id |-> NewAdminRequestId(STORE),
                      status_code |-> 200, listed |-> {}]
    /\ UNCHANGED <<threads, approvals, reservations, clock, mcp_log, last, inflight>>
    /\ UNCHANGED unit_vars

\* GET /admin/requests (lines 595-597)
list_requests ==
    /\ admin_last' = [endpoint |-> "/admin/requests", request_id |-> NULL,
                      status_code |-> 200, listed |-> list_pending_requests(STORE)]
    /\ UNCHANGED <<threads, approvals, reservations, clock, mcp_log, last, inflight, STORE>>
    /\ UNCHANGED unit_vars

\* POST /admin/decision (lines 612-621): 404 when post_admin_decision returns None
post_decision(request_id, approved) ==
    /\ request_id \in DOMAIN STORE => clock < MaxDecisions
    /\ clock' = IF request_id \in DOMAIN STORE THEN clock + 1 ELSE clock
    /\ STORE' = post_admin_decision(STORE, request_id, approved, UtcNow(clock + 1))
    /\ admin_last' = [endpoint |-> "/admin/decision", request_id |-> request_id,
                      status_code |-> IF request_id \in DOMAIN STORE THEN 200 ELSE 404,
                      listed |-> {}]
    /\ UNCHANGED <<threads, approvals, reservations, mcp_log, last, inflight>>
    /\ UNCHANGED unit_vars

\* the request ids an administrator can have seen: the ones returned to the
\* chat client and the ones returned by POST /admin/request
KnownRequestIds == DOMAIN approvals \cup DOMAIN STORE

WebNext ==
    \/ \E message \in WebMessages : chat_message(message)
    \/ create_request
    \/ list_requests
    \/ \E request_id \in KnownRequestIds, approved \in BOOLEAN :
           post_decision(request_id, approved)

WebSpec == Init /\ [][WebNext]_vars

(***************************************************************************)
(* http_security.py on its own: concurrent calls of allow.  A call reads   *)
(* time.monotonic() before it takes the lock (line 59); the block under    *)
(* the lock (lines 62-76) is one step.                                     *)
(***************************************************************************)
\* time passes
Tick ==
    /\ monotonic < MaxTime
    /\ monotonic' = monotonic + 1
    /\ UNCHANGED <<_hits, allow_calls, granted, allow_last>>
    /\ UNCHANGED <<chat_vars, admin_vars, suggested, durable>>

\* lines 59-61: now = time.monotonic(); cutoff = now - window_seconds
AllowRead(w, key) ==
    /\ allow_calls[w].pc = "idle"
    /\ allow_calls' = [allow_calls EXCEPT ![w] =
                          [NoAllowCall EXCEPT !.pc = "read", !.key = key,
                                              !.now = monotonic]]
    /\ UNCHANGED <<_hits, monotonic, granted, allow_last>>
    /\ UNCHANGED <<chat_vars, admin_vars, suggested, durable>>

\* lines 62-76: the block under self._lock
AllowLocked(w) ==
    /\ allow_calls[w].pc = "read"
    /\ LET key    == allow_calls[w].key
           now    == allow_calls[w].now
           hits   == popleft_expired(HitsOf(_hits, key), now - window_seconds)
       IN  IF Len(hits) >= max_requests
           THEN /\ _hits' = (key :> hits) @@ _hits
                /\ granted' = granted
                /\ allow_last' = [allow_calls[w] EXCEPT !.pc = "done", !.allowed = FALSE,
                                      !.retry_after = RetryAfter(hits, now)]
           ELSE /\ _hits' = (key :> Append(hits, now)) @@ _hits
                /\ granted' = [granted EXCEPT ![key][now] = @ + 1]
                /\ allow_last' = [allow_calls[w] EXCEPT !.pc = "done", !.allowed = TRUE,
                                      !.retry_after = 0]
    /\ allow_calls' = [allow_calls EXCEPT ![w] = NoAllowCall]
    /\ UNCHANGED monotonic
    /\ UNCHANGED <<chat_vars, admin_vars, suggested, durable>>

LimiterNext ==
    \/ Tick
    \/ \E w \in Workers, key \in RateKeys : AllowRead(w, key)
    \/ \E w \in Workers : AllowLocked(w)

LimiterSpec == Init /\ [][LimiterNext]_vars

(***************************************************************************)
(* booking_utils.py on its own: suggest_alternative_periods applied to     *)
(* periods and working-hours texts that its callers do not filter.          *)
(***************************************************************************)
PERIOD_LATE == "2026-02-20 21:00 to 2026-02-20 23:30"

PERIOD_REVERSED == "2026-02-20 18:00 to 2026-02-20 09:00"

PERIOD_DAYS == "2026-02-20 09:00 to 2026-02-22 10:00"

PERIOD_SHORT == "2026-02-20 07:00 to 2026-02-20 07:30"

PERIOD_NIGHT == "2026-02-20 22:00 to 2026-02-21 02:00"

PERIOD_LEAP == "2028-02-28 09:00 to 2028-02-28 10:00"

PERIOD_YEAR_END == "2026-12-31 09:00 to 2026-12-31 18:00"

SuggestPeriods ==
    {PERIOD_OK, PERIOD_EARLY, PERIOD_OLD, PERIOD_BAD_DATE, PERIOD_LATE, PERIOD_REVERSED,
     PERIOD_DAYS, PERIOD_SHORT, PERIOD_NIGHT, PERIOD_LEAP, PERIOD_YEAR_END,
     "tomorrow", ""}

INVALID_HOURS == "24:00-25:00"

SuggestHours ==
    {DEFAULT_WORKING_HOURS, UNPARSEABLE_HOURS, OVERNIGHT_HOURS, INVALID_HOURS,
     "09:00-09:00", "08:00 - 12:00", "00:00-23:59", "10:00-10:30", "9:00-18:00"}

\* one call of suggest_alternative_periods(period, working_hours)
suggest(period, working_hours) ==
    /\ suggested' =
           [period |-> period, working_hours |-> working_hours,
            raised |-> suggest_alternative_periods_raises(period, working_hours),
            result |-> IF suggest_alternative_periods_raises(period, working_hours)
                       THEN << >>
                       ELSE suggest_alternative_periods(period, working_hours)]
    /\ UNCHANGED <<chat_vars, admin_vars, limiter_vars, durable>>

SuggestNext ==
    \E period \in SuggestPeriods, working_hours \in SuggestHours :
        suggest(period, working_hours)

SuggestSpec == Init /\ [][SuggestNext]_vars

(***************************************************************************)
(* Properties.                                                             *)
(***************************************************************************)
\* the state a turn on thread_id starts from (interactive_flow.py line 220)
StateOf(thread_id) == _state_with(default_state, get_thread(thread_id))

\* a status poll: a non-empty message that is neither a cancel command nor a
\* booking intent (lines 209, 229, 251)
IsPoll(message) ==
    /\ message \in Messages
    /\ StripTable[message] # ""
    /\ ~CancelTable[StripTable[message]]
    /\ ~IntentTable[StripTable[message]]

\* an entry of the payload returned by the latest chat turn, NULL when absent
LastField(key) == IF key \in DOMAIN last.payload THEN last.payload[key] ELSE NULL

\* the ledger records of a request
RecordsOf(ledger, request_id) ==
    {i \in 1..Len(ledger) : ledger[i].request_id = request_id}

\* C1: over serialized turns and administrator decisions the ledger never
\* holds two records with the same request_id, and a poll that follows the
\* turn that appended a record appends nothing.
C1_LedgerAtMostOncePerRequest ==
    /\ \A i, j \in 1..Len(reservations) :
           reservations[i].request_id = reservations[j].request_id => i = j
    /\ \A request_id \in DOMAIN approvals :
           Cardinality(RecordsOf(reservations, request_id)) <= 1

\* C1 witness: a record is in the ledger and the latest step was a poll on the
\* thread that had already been answered "approved"
C1_Witness ==
    /\ Len(reservations) = 1
    /\ reservations[1].request_id = "req-1"
    /\ last.thread = "t1"
    /\ IsPoll(last.message)
    /\ ~last.raised
    /\ LastField("mode") = "info"

\* the request ids that can exist
RequestIds == {"req-" \o ToString(n) : n \in 1..MaxRequests}

\* the stored decision of request_id is an approval
IsApproved(request_id) ==
    /\ request_id \in DOMAIN approvals
    /\ approvals[request_id].decision # EmptyDict
    /\ approvals[request_id].decision.approved

\* thread_id is waiting for the decision of request_id
PendingFor(thread_id, request_id) ==
    /\ StateOf(thread_id).booking_active
    /\ StateOf(thread_id).status = "pending"
    /\ StateOf(thread_id).request_id = request_id

\* the latest step was a cancel command or a booking intent on the thread
Abandoning(thread_id) ==
    /\ last.thread = thread_id
    /\ last.message # NULL
    /\ StripTable[last.message] # ""
    /\ ~IsPoll(last.message)

C3_TurnsDoNotInterleave ==
    /\ \A w1, w2 \in Workers :
           (/\ w1 # w2
            /\ inflight[w1].pc = "ran"
            /\ inflight[w2].pc = "ran"
            /\ inflight[w1].thread = inflight[w2].thread
            /\ inflight[w1].prior = inflight[w2].prior)
           => ~(inflight[w1].created > 0 /\ inflight[w2].created > 0)
    /\ \A request_id \in DOMAIN approvals :
           Cardinality(RecordsOf(reservations, request_id)) <= 1

\* the stored approval of request_id has no decision yet
IsUndecided(request_id) ==
    /\ request_id \in DOMAIN approvals
    /\ approvals[request_id].decision = EmptyDict

\* this step is a chat turn on thread_id with a status poll
PollStep(thread_id) ==
    /\ last'.thread = thread_id
    /\ last'.message # NULL
    /\ IsPoll(last'.message)

STILL_PENDING == "Still pending administrator decision. Request id: "

\* C4: a poll on a thread that waits for an undecided request returns the
\* "still pending" response, stores a state equal to the prior state, and
\* appends nothing, creates no approval and calls no record_reservation.
C4_PendingPollIsIdempotent ==
    [][\A request_id \in RequestIds :
          (PendingFor("t1", request_id) /\ IsUndecided(request_id) /\ PollStep("t1"))
          => /\ ~last'.raised
             /\ last'.payload.status = "pending"
             /\ last'.payload.response = STILL_PENDING \o request_id
             /\ last'.payload.request_id = request_id
             /\ threads' = threads
             /\ reservations' = reservations
             /\ approvals' = approvals
             /\ mcp_log' = mcp_log]_vars

\* C4 witness: the thread waits for an undecided request and the latest step
\* was a poll answered "still pending"
C4_Witness ==
    /\ PendingFor("t1", "req-1")
    /\ IsUndecided("req-1")
    /\ last.thread = "t1"
    /\ IsPoll(last.message)
    /\ LastField("response") = STILL_PENDING \o "req-1"

\* the decision stored for request_id
StoredDecision(request_id) == approvals[request_id].decision

\* what C5 promises of a step that handles the approval of request_id
ApprovedOutcome(request_id) ==
    /\ ~last'.raised
    /\ last'.payload.status = "approved"
    /\ threads'["t1"].status = "approved"
    /\ threads'["t1"].recorded = TRUE
    /\ threads'["t1"].booking_active = FALSE
    /\ threads'["t1"].pending_field = NULL
    /\ Len(reservations') = Len(reservations) + 1
    /\ SubSeq(reservations', 1, Len(reservations)) = reservations
    /\ LET entry == reservations'[Len(reservations')]
           collected == StateOf("t1").collected
       IN  /\ entry.request_id = request_id
           /\ entry.car_number = collected.car_number
           /\ entry.reservation_period = collected.reservation_period
           /\ entry.approval_time = StoredDecision(request_id).decided_at

IsDeclined(request_id) ==
    /\ request_id \in DOMAIN approvals
    /\ approvals[request_id].decision # EmptyDict
    /\ ~approvals[request_id].decision.approved

\* C6: a poll on a thread that waits for a request with a declined decision
\* stores status=declined, booking_active=false, pending_field=null,
\* recorded=false and the decision's decided_at, and appends nothing and calls
\* no record_reservation; the thread never waits for that request again, and
\* only a turn of a thread that waits for a request appends a record of it or
\* calls record_reservation, so no later turn does either for the request.
C6_DeclinedIsTerminal ==
    [][\A request_id \in RequestIds :
          /\ (PendingFor("t1", request_id) /\ IsDeclined(request_id) /\ PollStep("t1"))
             => /\ ~last'.raised
                /\ last'.payload.status = "declined"
                /\ threads'["t1"].status = "declined"
                /\ threads'["t1"].booking_active = FALSE
                /\ threads'["t1"].pending_field = NULL
                /\ threads'["t1"].recorded = FALSE
                /\ threads'["t1"].decided_at = StoredDecision(request_id).decided_at
                /\ reservations' = reservations
                /\ mcp_log' = mcp_log
                /\ ~PendingFor("t1", request_id)'
          /\ (request_id \in DOMAIN approvals /\ ~PendingFor("t1", request_id))
             => /\ ~PendingFor("t1", request_id)'
                /\ RecordsOf(reservations', request_id) = RecordsOf(reservations, request_id)
          /\ (request_id \in DOMAIN approvals /\ ~IsApproved(request_id))
             => RecordsOf(reservations', request_id) = RecordsOf(reservations, request_id)
          /\ mcp_log' # mcp_log
             => \E other \in RequestIds : PendingFor("t1", other) /\ IsApproved(other)]_vars

\* C6 witness: the latest step was the poll that read the decline; the ledger
\* and the record_reservation log are empty
C6_Witness ==
    /\ IsDeclined("req-1")
    /\ last.thread = "t1"
    /\ IsPoll(last.message)
    /\ LastField("status") = "declined"
    /\ StateOf("t1").status = "declined"
    /\ StateOf("t1").request_id = "req-1"
    /\ StateOf("t1").decided_at = StoredDecision("req-1").decided_at
    /\ reservations = << >>
    /\ mcp_log = << >>

\* thread_id is in review
InReview(thread_id) ==
    /\ StateOf(thread_id).booking_active
    /\ StateOf(thread_id).status = "review"

\* this step is a chat turn on thread_id with a confirm command
ConfirmStep(thread_id) ==
    /\ PollStep(thread_id)
    /\ ConfirmTable[StripTable[last'.message]]

\* C7: a confirm command in review creates exactly one approval request, with
\* the collected values, and the thread then waits for it; nothing else
\* creates an approval request, in particular no message sent while the
\* thread is pending.
C7_OneApprovalPerSubmission ==
    [][/\ (InReview("t1") /\ ConfirmStep("t1"))
          => \E new_id \in {NewRequestId(approvals)} :
                /\ new_id \notin DOMAIN approvals
                /\ DOMAIN approvals' = DOMAIN approvals \cup {new_id}
                /\ approvals'[new_id].payload.car_number
                       = StateOf("t1").collected.car_number
                /\ approvals'[new_id].payload.reservation_period
                       = StateOf("t1").collected.reservation_period
                /\ PendingFor("t1", new_id)'
       /\ DOMAIN approvals' # DOMAIN approvals
          => InReview("t1") /\ ConfirmStep("t1")
       /\ (\E request_id \in RequestIds : PendingFor("t1", request_id))
          => DOMAIN approvals' = DOMAIN approvals]_vars

\* C7 witness: a confirm command was sent while the thread was already
\* pending; there is still one approval request
C7_Witness ==
    /\ PendingFor("t1", "req-1")
    /\ last.thread = "t1"
    /\ last.message # NULL
    /\ ConfirmTable[StripTable[last.message]]
    /\ LastField("response") = STILL_PENDING \o "req-1"
    /\ DOMAIN approvals = {"req-1"}

\* C8: once a decision is stored for a request, no later call of
\* set_approval_decision changes its approved value or its decided_at.
C8_DecisionSetAtMostOnce ==
    [][\A request_id \in DOMAIN approvals :
          approvals[request_id].decision # EmptyDict
          => /\ request_id \in DOMAIN approvals'
             /\ approvals'[request_id].decision = approvals[request_id].decision]_vars

\* C8: a request whose approval was replaced by a decline with a later time
C8_Redecided ==
    /\ IsDeclined("req-1")
    /\ StoredDecision("req-1").decided_at = UtcNow(2)

\* the approved turn of thread_id appended the record but its
\* record_reservation call failed
HalfRecorded(thread_id) ==
    /\ mcp_log # << >>
    /\ ~mcp_log[Len(mcp_log)].ok
    /\ reservations # << >>
    /\ reservations[Len(reservations)].request_id = StateOf(thread_id).request_id
    /\ StateOf(thread_id).status = "approved"
    /\ StateOf(thread_id).recorded
    /\ ~StateOf(thread_id).mcp_recorded
    /\ Truthy(StateOf(thread_id).request_id)

\* what a status poll on thread_id does now, with working collaborators
PollResult(thread_id, message) ==
    run_chat_turn(message, get_thread(thread_id), approvals, NormalEnv,
                  NewRequestId(approvals))

\* C9: after an approved turn with recorded=true and mcp_recorded=false, a
\* status poll calls record_reservation again and appends nothing.
C9_PollRetriesRecorder ==
    HalfRecorded("t1")
    => \A message \in {m \in Messages : IsPoll(m)} :
           /\ Len(PollResult("t1", message).mcp) = 1
           /\ PollResult("t1", message).appended = << >>

\* C9: the thread was polled after such an approved turn; record_reservation
\* has only the one failed call and the flags of the booking are gone
C9_NeverRetried ==
    /\ Len(reservations) = 1
    /\ Len(mcp_log) = 1
    /\ ~mcp_log[1].ok
    /\ last.thread = "t1"
    /\ IsPoll(last.message)
    /\ LastField("mode") = "info"
    /\ StateOf("t1").request_id = NULL
    /\ ~StateOf("t1").recorded

\* the collaborators of a call in which only persistence.append_reservation fails
LedgerDownEnv == CHOOSE e \in Envs : e.append_fails

\* C10: when append_reservation fails in the approved transition, run_chat_turn
\* raises nothing and returns a payload with status=approved whose
\* status_detail is not the plain one (it notes the failure).
C10_AppendFailureNotPropagated ==
    \A request_id \in RequestIds :
        (PendingFor("t1", request_id) /\ IsApproved(request_id))
        => \A message \in {m \in Messages : IsPoll(m)} :
               \E r \in {run_chat_turn(message, get_thread("t1"), approvals,
                                       LedgerDownEnv, NewRequestId(approvals))} :
                   /\ ~r.raised
                   /\ r.payload.status = "approved"
                   /\ r.payload.status_detail
                          # _status_detail("approved", StateOf("t1").collected)

\* C10: the latest poll of an approved request raised; the thread still
\* waits and nothing was recorded
C10_PollRaised ==
    /\ last.thread = "t1"
    /\ IsPoll(last.message)
    /\ last.raised
    /\ PendingFor("t1", "req-1")
    /\ IsApproved("req-1")
    /\ reservations = << >>

\* this step called record_reservation once and the call raised
RecorderFailedStep ==
    /\ Len(mcp_log') = Len(mcp_log) + 1
    /\ ~mcp_log'[Len(mcp_log')].ok

MCP_FAILED_DETAIL ==
    "Reservation is approved and recorded. (MCP file record failed: recorder unavailable)"

\* C11: when the record_reservation callback raises in the approved
\* transition, the turn still returns status=approved with recorded=true and
\* mcp_recorded=false, the error text is appended to status_detail, and the
\* ledger record appended in that turn stays in the ledger.
C11_RecorderFailureIsNonFatal ==
    [][\A request_id \in RequestIds :
          (/\ PendingFor("t1", request_id)
           /\ IsApproved(request_id)
           /\ PollStep("t1")
           /\ RecorderFailedStep)
          => /\ ~last'.raised
             /\ last'.payload.status = "approved"
             /\ last'.payload.recorded = TRUE
             /\ last'.payload.mcp_recorded = FALSE
             /\ last'.payload.status_detail = MCP_FAILED_DETAIL
             /\ threads'["t1"].status = "approved"
             /\ threads'["t1"].recorded = TRUE
             /\ threads'["t1"].mcp_recorded = FALSE
             /\ Len(reservations') = Len(reservations) + 1
             /\ reservations'[Len(reservations')].request_id = request_id]_vars

\* C11 witness: the latest step was an approved turn whose callback raised;
\* the record is in the ledger
C11_Witness ==
    /\ last.thread = "t1"
    /\ IsPoll(last.message)
    /\ LastField("status") = "approved"
    /\ LastField("status_detail") = MCP_FAILED_DETAIL
    /\ mcp_log # << >>
    /\ ~mcp_log[Len(mcp_log)].ok
    /\ Len(reservations) = 1
    /\ reservations[1].request_id = "req-1"
    /\ StateOf("t1").recorded
    /\ ~StateOf("t1").mcp_recorded

\* the record_reservation calls made for a request
CallsOf(log, request_id) == {i \in 1..Len(log) : log[i].request_id = request_id}

\* C12: record_reservation is called at most once per request_id, only by a
\* turn of a thread that waits for that request and reads an approved
\* decision, and never by a turn whose prior state has mcp_recorded=true.
C12_RecorderAtMostOncePerRequest ==
    /\ [](\A request_id \in RequestIds :
             Cardinality(CallsOf(mcp_log, request_id)) <= 1)
    /\ [][mcp_log' # mcp_log
          => /\ PollStep("t1")
             /\ ~StateOf("t1").mcp_recorded
             /\ Len(mcp_log') = Len(mcp_log) + 1
             /\ SubSeq(mcp_log', 1, Len(mcp_log)) = mcp_log
             /\ \E request_id \in RequestIds :
                    /\ PendingFor("t1", request_id)
                    /\ IsApproved(request_id)
                    /\ mcp_log'[Len(mcp_log')].request_id = request_id
                    /\ mcp_log'[Len(mcp_log')].approval_time
                           = StoredDecision(request_id).decided_at]_vars

\* C12 witness: record_reservation was called once, it raised, and the thread
\* was polled again afterwards
C12_Witness ==
    /\ Cardinality(CallsOf(mcp_log, "req-1")) = 1
    /\ ~mcp_log[1].ok
    /\ Len(reservations) = 1
    /\ last.thread = "t1"
    /\ IsPoll(last.message)
    /\ ~last.raised
    /\ LastField("mode") = "info"
    /\ LastField("response") = AnswerText(last.message)

\* this step is a chat turn on thread_id with a cancel command
CancelStep(thread_id) ==
    /\ last'.thread = thread_id
    /\ last'.message # NULL
    /\ StripTable[last'.message] # ""
    /\ CancelTable[StripTable[last'.message]]

\* C13: a cancel command on a thread with an active booking (collecting,
\* review or pending) returns status=cancelled, mode=info and stores
\* booking_active=false, pending_field=null, collected empty, request_id=null,
\* recorded=false, mcp_recorded=false, also when the text is a booking intent
\* as well; it creates no approval, appends nothing and calls no callback.
C13_CancelFromAnyActiveState ==
    [][(StateOf("t1").booking_active /\ CancelStep("t1"))
       => /\ ~last'.raised
          /\ last'.payload.status = "cancelled"
          /\ last'.payload.mode = "info"
          /\ threads'["t1"].status = "cancelled"
          /\ threads'["t1"].mode = "info"
          /\ threads'["t1"].booking_active = FALSE
          /\ threads'["t1"].pending_field = NULL
          /\ threads'["t1"].collected = EmptyDict
          /\ threads'["t1"].request_id = NULL
          /\ threads'["t1"].recorded = FALSE
          /\ threads'["t1"].mcp_recorded = FALSE
          /\ approvals' = approvals
          /\ reservations' = reservations
          /\ mcp_log' = mcp_log]_vars

\* C13 witness: "cancel booking", which also reads as a booking intent, has
\* cancelled a thread that was pending, and the request that the thread had
\* submitted is still undecided
C13_Witness ==
    /\ last.thread = "t1"
    /\ last.message = "cancel booking"
    /\ last.prior_status = "pending"
    /\ IntentTable[StripTable[last.message]]
    /\ LastField("status") = "cancelled"
    /\ StateOf("t1").status = "cancelled"
    /\ StateOf("t1").collected = EmptyDict
    /\ IsUndecided("req-1")

\* this step is a chat turn on thread_id with a booking intent that is not
\* handled as a cancel command
IntentStep(thread_id) ==
    /\ last'.thread = thread_id
    /\ last'.message # NULL
    /\ StripTable[last'.message] # ""
    /\ IntentTable[StripTable[last'.message]]
    /\ ~(StateOf(thread_id).booking_active /\ CancelTable[StripTable[last'.message]])

\* C14: a booking intent that is not handled as a cancel stores a fresh
\* wizard state whatever the prior state: mode=booking, booking_active=true,
\* pending_field=name, status=collecting, collected empty, request_id=null,
\* recorded=false, mcp_recorded=false, decided_at=null.
C14_IntentStartsFreshWizard ==
    [][IntentStep("t1")
       => /\ ~last'.raised
          /\ last'.payload.status = "collecting"
          /\ last'.payload.pending_field = "name"
          /\ "request_id" \notin DOMAIN last'.payload
          /\ threads'["t1"].mode = "booking"
          /\ threads'["t1"].booking_active = TRUE
          /\ threads'["t1"].pending_field = "name"
          /\ threads'["t1"].status = "collecting"
          /\ threads'["t1"].collected = EmptyDict
          /\ threads'["t1"].request_id = NULL
          /\ threads'["t1"].recorded = FALSE
          /\ threads'["t1"].mcp_recorded = FALSE
          /\ threads'["t1"].decided_at = NULL
          /\ approvals' = approvals
          /\ reservations' = reservations
          /\ mcp_log' = mcp_log]_vars

\* C14 witness: a booking intent restarted the wizard on a thread whose
\* earlier booking was approved and recorded (the state still carries the
\* response text of that turn)
C14_Witness ==
    /\ last.thread = "t1"
    /\ last.message # NULL
    /\ IntentTable[StripTable[last.message]]
    /\ LastField("pending_field") = "name"
    /\ Len(reservations) = 1
    /\ "response" \in DOMAIN get_thread("t1")
    /\ StateOf("t1").request_id = NULL
    /\ ~StateOf("t1").recorded
    /\ StateOf("t1").decided_at = NULL

\* the status changes of the state-machine summary that need no particular
\* message
SummaryEdges ==
    {<<"collecting", "collecting">>, <<"collecting", "review">>,
     <<"review", "review">>, <<"review", "collecting">>, <<"review", "pending">>,
     <<"pending", "pending">>, <<"pending", "approved">>, <<"pending", "declined">>}

\* this step is a chat turn on a thread with an active booking
ActiveTurnStep(thread_id) ==
    /\ StateOf(thread_id).booking_active
    /\ last'.thread = thread_id
    /\ last'.message # NULL

\* C15 as stated: a turn on an active booking changes the status along an
\* edge of the summary; cancelled is entered only from collecting or review,
\* by a cancel command, and a booking intent leads to collecting.
C15_OnlySummaryEdges ==
    [][ActiveTurnStep("t1")
       => \/ <<StateOf("t1").status, StateOf("t1")'.status>> \in SummaryEdges
          \/ /\ StateOf("t1").status \in {"collecting", "review"}
             /\ StateOf("t1")'.status = "cancelled"
             /\ CancelStep("t1")
          \/ /\ StateOf("t1")'.status = "collecting"
             /\ IntentStep("t1")]_vars

\* C15 amended: the same with the edge pending -> cancelled, taken by a
\* cancel command on a thread that waits for a decision.
C15_SummaryEdgesAndPendingCancel ==
    [][ActiveTurnStep("t1")
       => \/ <<StateOf("t1").status, StateOf("t1")'.status>> \in SummaryEdges
          \/ /\ StateOf("t1").status \in {"collecting", "review", "pending"}
             /\ StateOf("t1")'.status = "cancelled"
             /\ CancelStep("t1")
          \/ /\ StateOf("t1")'.status = "collecting"
             /\ IntentStep("t1")]_vars

\* C15 witness: a cancel command has moved a pending thread to cancelled
C15_Witness ==
    /\ last.thread = "t1"
    /\ last.message = "cancel"
    /\ last.prior_status = "pending"
    /\ StateOf("t1").status = "cancelled"
    /\ LastField("status") = "cancelled"

\* C16: in every stored thread state, pending_field is non-null only when
\* status is collecting.
C16_PendingFieldOnlyWhileCollecting ==
    \A thread_id \in ThreadIds :
        StateOf(thread_id).pending_field # NULL => StateOf(thread_id).status = "collecting"

\* C16 witness: an edit command in review has reopened a field, and the
\* thread that awaits it is collecting
C16_Witness ==
    /\ last.thread = "t1"
    /\ last.prior_status = "review"
    /\ StateOf("t1").pending_field = "car_number"
    /\ StateOf("t1").status = "collecting"

\* C17: in every stored thread state, request_id is non-null only when
\* status is pending, approved or declined.
C17_RequestIdOnlyAfterSubmission ==
    \A thread_id \in ThreadIds :
        StateOf(thread_id).request_id # NULL
            => StateOf(thread_id).status \in {"pending", "approved", "declined"}

\* C17 witness: a poll has moved a pending thread to declined and the thread
\* keeps the id of its request
C17_Witness ==
    /\ last.thread = "t1"
    /\ last.prior_status = "pending"
    /\ StateOf("t1").status = "declined"
    /\ StateOf("t1").request_id \in DOMAIN approvals

\* the form in which the engine stores a value of a field (lines 661-666 and
\* apply_valid_parsed_details)
NormalForm(field, value) ==
    IF field = "car_number" THEN normalize_car_number(value)
    ELSE IF field = "reservation_period" THEN normalize_reservation_period(value)
    ELSE value

\* every entry of collected is one of the four booking fields
CollectedHasKnownFields == DOMAIN StateOf("t1").collected \subseteq FieldSet

\* every collected value passes validate_field for its field
CollectedPassesValidation ==
    \A field \in DOMAIN StateOf("t1").collected :
        validate_field(field, StateOf("t1").collected[field]) = NULL

\* normalizing a collected value again returns the same string
CollectedIsNormalized ==
    \A field \in DOMAIN StateOf("t1").collected :
        NormalForm(field, StateOf("t1").collected[field]) = StateOf("t1").collected[field]

\* the raw values that the message of a turn offers for a field: the text,
\* when the field is awaited and the text is no shorthand, or the shorthand
\* entry of the field
OfferedValues(prior, text, field) ==
    IF ParsedTable[text] # EmptyDict
    THEN IF prior.status \in {"collecting", "review"} /\ field \in DOMAIN ParsedTable[text]
         THEN {ParsedTable[text][field]}
         ELSE {}
    ELSE IF prior.status = "collecting" /\ prior.pending_field = field THEN {text}
    ELSE {}

\* a turn stores a new value for a field only when the message offers a raw
\* value that passes validate_field, and then stores its normal form; any
\* other turn that keeps the field leaves its value as it was
OnlyValidValuesStored ==
    [][\A field \in FieldSet :
          (/\ last'.message # NULL
           /\ field \in DOMAIN StateOf("t1")'.collected
           /\ DictGet(StateOf("t1")'.collected, field) # DictGet(StateOf("t1").collected, field))
          => \E raw \in OfferedValues(StateOf("t1"), StripTable[last'.message], field) :
                 /\ ValidateTable[field][raw] = NULL
                 /\ StateOf("t1")'.collected[field] = NormalForm(field, raw)]_vars

\* C18: in every reachable state each entry of collected is one of the four
\* booking fields, passes validate_field for that field and is in normal form
\* (normalizing it again returns the same string); a value that fails
\* validation, typed alone or supplied in shorthand, is never stored and
\* leaves the previous value of the field unchanged.
C18_CollectedIsValidAndNormalized ==
    /\ [](CollectedHasKnownFields /\ CollectedPassesValidation /\ CollectedIsNormalized)
    /\ OnlyValidValuesStored

\* C18: a period of the year 999 was typed alone, passed validate_field, and
\* what collected holds for it fails validate_field
C18_StoredPeriodFailsValidation ==
    /\ last.thread = "t1"
    /\ last.message = PERIOD_OLD
    /\ validate_field("reservation_period", PERIOD_OLD) = NULL
    /\ LastField("status") = "review"
    /\ "reservation_period" \in DOMAIN StateOf("t1").collected
    /\ validate_field("reservation_period", StateOf("t1").collected["reservation_period"]) # NULL

\* what a chat turn on thread_id does now with the given message and
\* DynamicInfo row
TurnResult(thread_id, message, env) ==
    run_chat_turn(message, get_thread(thread_id), approvals, env, NewRequestId(approvals))

\* the result r of a turn puts a new reservation_period into collected
StoresNewPeriod(thread_id, r) ==
    /\ ~r.raised
    /\ "reservation_period" \in DOMAIN r.next_state.collected
    /\ r.next_state.collected["reservation_period"]
           # DictGet(StateOf(thread_id).collected, "reservation_period")

\* C19: whatever the message and the DynamicInfo row of a turn, by single
\* field, shorthand while collecting or shorthand in review, the turn puts a
\* new reservation_period into collected only if the period offered lies
\* within the working hours of that row (is_period_within_working_hours is
\* not False) and the row has a free space.
C19_PeriodAcceptedOnlyAfterChecks ==
    \A message \in WizardMessages, env \in WizardEnvs :
        \E r \in {TurnResult("t1", message, env)} :
            StoresNewPeriod("t1", r)
            => \E raw \in OfferedValues(StateOf("t1"), StripTable[message],
                                        "reservation_period") :
                   /\ r.next_state.collected["reservation_period"]
                          = normalize_reservation_period(raw)
                   /\ is_period_within_working_hours(raw, env.working_hours) # "False"
                   /\ env.available_spaces > 0

\* C19: shorthand with a period that starts before the opening hour was sent
\* to a wizard, and collected now holds that period
C19_EarlyPeriodStoredByShorthand ==
    /\ last.thread = "t1"
    /\ last.message = SHORTHAND_EARLY
    /\ last.prior_status \in {"collecting", "review"}
    /\ is_period_within_working_hours(PERIOD_EARLY, DEFAULT_WORKING_HOURS) = "False"
    /\ \A env \in WizardEnvs :
           env.working_hours = DEFAULT_WORKING_HOURS
           => is_period_within_working_hours(PERIOD_EARLY, env.working_hours) = "False"
    /\ DictGet(StateOf("t1").collected, "reservation_period") = PERIOD_EARLY

\* the thread is a freshly triggered wizard
FreshWizard(thread_id) ==
    /\ StateOf(thread_id).booking_active
    /\ StateOf(thread_id).status = "collecting"
    /\ StateOf(thread_id).pending_field = "name"
    /\ StateOf(thread_id).collected = EmptyDict

\* the outcome of sending the messages of seq one at a time, with working
\* collaborators and the default DynamicInfo row: the last state, and whether
\* a turn raised
RECURSIVE StateAfter(_, _)
StateAfter(state, seq) ==
    IF seq = << >> THEN [raised |-> FALSE, state |-> state]
    ELSE Bind(run_chat_turn(Head(seq), state, approvals, NormalEnv, NewRequestId(approvals)),
              LAMBDA r : IF r.raised THEN [raised |-> TRUE, state |-> state]
                         ELSE StateAfter(r.next_state, Tail(seq)))

\* the texts of the wizard runs that pass validate_field for a field; a
\* period also lies within the default working hours
ValidTexts(field) ==
    {m \in WizardMessages :
        /\ StripTable[m] = m
        /\ ValidateTable[field][m] = NULL
        /\ field = "reservation_period" => WithinTable[m][DEFAULT_WORKING_HOURS] = "True"}

\* C20: from a freshly triggered wizard, any four values that pass
\* validate_field for name, surname, car_number and reservation_period (the
\* period within the working hours, spaces available), sent one message at a
\* time in that order, lead to status=review with collected holding exactly
\* the four normalized values.
C20_ValidValuesReachReview ==
    FreshWizard("t1")
    => \A name \in ValidTexts("name"), surname \in ValidTexts("surname"),
          car_number \in ValidTexts("car_number"),
          reservation_period \in ValidTexts("reservation_period") :
           \E final \in {StateAfter(get_thread("t1"),
                                     <<name, surname, car_number, reservation_period>>)} :
               /\ ~final.raised
               /\ final.state.status = "review"
               /\ final.state.collected =
                      [name |-> name, surname |-> surname,
                       car_number |-> CarTable[car_number],
                       reservation_period |-> PeriodTable[reservation_period]]

\* C20: the wizard holds a name and awaits the surname; the surname Booker
\* passes validate_field, and the turn that receives it starts the wizard
\* over with nothing collected
C20_SurnameRestartsWizard ==
    /\ StateOf("t1").booking_active
    /\ StateOf("t1").pending_field = "surname"
    /\ DOMAIN StateOf("t1").collected = {"name"}
    /\ validate_field("surname", "Booker") = NULL
    /\ \E final \in {StateAfter(get_thread("t1"), <<"Booker">>)} :
           /\ ~final.raised
           /\ final.state.pending_field = "name"
           /\ final.state.collected = EmptyDict

\* the thread is in the wizard and awaits a field
Collecting(thread_id) ==
    /\ StateOf(thread_id).booking_active
    /\ StateOf(thread_id).status = "collecting"
    /\ StateOf(thread_id).pending_field # NULL

\* the shorthand messages that carry valid values for all four fields, in two
\* orders, and the normalized values they carry
FullShorthands == {SHORTHAND_FULL, SHORTHAND_PERIOD_FIRST}

ShorthandValues ==
    [name |-> "O'Neil", surname |-> "O'Neil", car_number |-> "AA1234",
     reservation_period |-> PERIOD_OK]

\* C21: while collecting, one shorthand message with valid values for all
\* four fields, in whatever order they are written, leads to status=review
\* with collected holding the four normalized values.
C21_FullShorthandReachesReview ==
    Collecting("t1")
    => \A message \in FullShorthands, env \in WizardEnvs :
           \E r \in {TurnResult("t1", message, env)} :
               /\ ~r.raised
               /\ r.payload.status = "review"
               /\ r.next_state.status = "review"
               /\ r.next_state.collected = ShorthandValues

\* C21: the shorthand that writes the period first was sent to a wizard that
\* had collected nothing, and the wizard still awaits the period
C21_PeriodFirstStaysCollecting ==
    /\ last.thread = "t1"
    /\ last.message = SHORTHAND_PERIOD_FIRST
    /\ LastField("status") = "collecting"
    /\ LastField("pending_field") = "reservation_period"
    /\ DOMAIN StateOf("t1").collected = {"name", "surname", "car_number"}

\* the texts that run_chat_turn may receive in the wizard and review runs
ProbeMessages == WizardMessages \cup ReviewMessages

\* C22: while collecting with pending_field = f, every message whose value
\* fails validate_field for f leaves pending_field = f and collected
\* unchanged, keeps status=collecting, and is answered with a response that
\* contains "Invalid f"; the turn does not raise.
C22_InvalidValueKeepsField ==
    Collecting("t1")
    => \A message \in ProbeMessages, env \in WizardEnvs :
           ValidateTable[StateOf("t1").pending_field][StripTable[message]] # NULL
           => \E r \in {TurnResult("t1", message, env)} :
                  /\ ~r.raised
                  /\ r.next_state.pending_field = StateOf("t1").pending_field
                  /\ r.next_state.collected = StateOf("t1").collected
                  /\ r.next_state.status = "collecting"
                  /\ r.payload.status = "collecting"
                  /\ str_contains(r.payload.response,
                                  "Invalid " \o StateOf("t1").pending_field)

\* C22: the wizard awaited the reservation period, received a period that
\* names the 30th of February, and the call raised
C22_BadDateRaised ==
    /\ last.thread = "t1"
    /\ last.message = PERIOD_BAD_DATE
    /\ last.raised
    /\ Collecting("t1")
    /\ StateOf("t1").pending_field = "reservation_period"
    /\ validate_field("reservation_period", PERIOD_BAD_DATE) = RAISED

\* the wizard awaits the reservation period
AwaitsPeriod(thread_id) ==
    /\ Collecting(thread_id)
    /\ StateOf(thread_id).pending_field = "reservation_period"

\* the message is a well-formed period with end after start that lies outside
\* the working hours of the DynamicInfo row
OutsideHours(message, env) ==
    /\ ValidateTable["reservation_period"][StripTable[message]] = NULL
    /\ WithinTable[StripTable[message]][env.working_hours] = "False"

\* the alternatives entry of a payload, empty when the payload has none
AlternativesOf(payload) ==
    IF "alternatives" \in DOMAIN payload THEN payload.alternatives ELSE << >>

\* the turn result r rejects the period: status=collecting on the same field
\* with collected as it was
PeriodRejected(thread_id, r) ==
    /\ ~r.raised
    /\ r.payload.status = "collecting"
    /\ r.payload.pending_field = "reservation_period"
    /\ r.next_state.status = "collecting"
    /\ r.next_state.pending_field = "reservation_period"
    /\ r.next_state.collected = StateOf(thread_id).collected
    /\ r.payload.collected = StateOf(thread_id).collected

\* C23 as stated: while the reservation period is awaited, a well-formed
\* period outside the configured working hours is rejected on the same field
\* with collected unchanged, and the payload carries between one and two
\* alternatives.
C23_OutsideHoursAlwaysHasAlternatives ==
    AwaitsPeriod("t1")
    => \A message \in ProbeMessages, env \in WizardEnvs :
           OutsideHours(message, env)
           => \E r \in {TurnResult("t1", message, env)} :
                  /\ PeriodRejected("t1", r)
                  /\ Len(AlternativesOf(r.payload)) \in 1..2

\* C23 amended: such a period is rejected on the same field with collected
\* unchanged and at most two alternatives; there is at least one when the
\* working-hours window opens before it closes, and none otherwise.
C23_OutsideHoursRejected ==
    AwaitsPeriod("t1")
    => \A message \in ProbeMessages, env \in WizardEnvs :
           OutsideHours(message, env)
           => \E r \in {TurnResult("t1", message, env)} :
                  /\ PeriodRejected("t1", r)
                  /\ Len(AlternativesOf(r.payload)) <= 2
                  /\ AlternativesOf(r.payload) # << >>
                         <=> HoursTable[env.working_hours].open_at
                                 < HoursTable[env.working_hours].close_at

\* C23 witness: a period that starts before the opening hour was typed while
\* the period was awaited; it was rejected with alternatives, and the wizard
\* still awaits the period
C23_Witness ==
    /\ last.thread = "t1"
    /\ last.message = PERIOD_EARLY
    /\ LastField("status") = "collecting"
    /\ LastField("pending_field") = "reservation_period"
    /\ LastField("alternatives") # NULL
    /\ AwaitsPeriod("t1")
    /\ "reservation_period" \notin DOMAIN StateOf("t1").collected

(***************************************************************************)
(* The web Turn Host and its admin endpoints.                              *)
(***************************************************************************)
\* the request the thread is waiting on, NULL when it waits on none
AwaitedRequest(thread_id) ==
    IF StateOf(thread_id).status = "pending" THEN StateOf(thread_id).request_id ELSE NULL

\* C24: through the web Turn Host, the request_id that confirm returned on
\* POST /chat/message is listed by GET /admin/requests while it is undecided,
\* and POST /admin/decision for that request_id succeeds (it is not answered
\* 404).
C24_ConfirmedRequestReachesAdmin ==
    \A request_id \in DOMAIN approvals :
        /\ approvals[request_id].decision = EmptyDict
               => request_id \in list_pending_requests(STORE)
        /\ (admin_last.endpoint = "/admin/decision" /\ admin_last.request_id = request_id)
               => admin_last.status_code = 200

\* C24: the thread waits on the request confirm created, GET /admin/requests
\* does not list it, and POST /admin/decision for it was answered 404
C24_DecisionNotFound ==
    /\ AwaitedRequest("t1") \in DOMAIN approvals
    /\ approvals[AwaitedRequest("t1")].decision = EmptyDict
    /\ AwaitedRequest("t1") \notin list_pending_requests(STORE)
    /\ admin_last.endpoint = "/admin/decision"
    /\ admin_last.request_id = AwaitedRequest("t1")
    /\ admin_last.status_code = 404
    /\ last.thread = "t1" /\ last.message = STATUS_POLL /\ LastField("status") = "pending"

(***************************************************************************)
(* The review step.                                                        *)
(***************************************************************************)
\* the payload of the approval request that a confirm command creates
SubmittedPayload(collected) ==
    [name |-> DictGet(collected, "name"),
     surname |-> DictGet(collected, "surname"),
     car_number |-> DictGet(collected, "car_number"),
     reservation_period |-> DictGet(collected, "reservation_period")]

\* this step is a chat turn on thread_id whose stripped text is a confirm command
ConfirmCommandStep(thread_id) ==
    /\ last'.thread = thread_id
    /\ last'.message # NULL
    /\ ConfirmTable[StripTable[last'.message]]

\* C25: in review, a confirm command (confirm, submit, yes, approve, ok, or a
\* text starting with "confirm ") creates one approval request whose payload
\* is the four collected values and leaves the thread pending on the new
\* request_id with booking_active, no pending_field, recorded and mcp_recorded
\* false and no decided_at; a thread in review has no request_id.
C25_ConfirmSubmits ==
    [][/\ InReview("t1") => StateOf("t1").request_id = NULL
       /\ (InReview("t1") /\ ConfirmCommandStep("t1"))
          => \E new_id \in {NewRequestId(approvals)} :
                /\ ~last'.raised
                /\ DOMAIN approvals' = DOMAIN approvals \cup {new_id}
                /\ new_id \notin DOMAIN approvals
                /\ approvals'[new_id].payload = SubmittedPayload(StateOf("t1").collected)
                /\ DOMAIN StateOf("t1").collected = FieldSet
                /\ StateOf("t1")'.status = "pending"
                /\ StateOf("t1")'.request_id = new_id
                /\ StateOf("t1")'.booking_active
                /\ StateOf("t1")'.pending_field = NULL
                /\ ~StateOf("t1")'.recorded
                /\ ~StateOf("t1")'.mcp_recorded
                /\ StateOf("t1")'.decided_at = NULL]_vars

\* C25: "confirm booking" was sent in review; no approval request exists and
\* the wizard asks for the name again with nothing collected
C25_ConfirmBookingRestarts ==
    /\ last.thread = "t1"
    /\ last.message = CONFIRM_BOOKING
    /\ last.prior_status = "review"
    /\ ConfirmTable[StripTable[CONFIRM_BOOKING]]
    /\ approvals = EmptyDict
    /\ StateOf("t1").status = "collecting"
    /\ StateOf("t1").pending_field = "name"
    /\ StateOf("t1").collected = EmptyDict

(***************************************************************************)
(* Informational turns and empty messages.                                 *)
(***************************************************************************)
\* the nine fields of state have the values of a thread without a booking
IsResetState(state) ==
    \A key \in DOMAIN default_state :
        key \in DOMAIN state /\ state[key] = default_state[key]

\* what an informational turn with the given message and collaborators must
\* return from the current state of thread_id: the answer or the apology, no
\* write, and the reset state
AnswersQuestion(thread_id, message, env) ==
    Bind(TurnResult(thread_id, message, env), LAMBDA r :
        /\ ~r.raised
        /\ r.asked
        /\ r.payload.response = (IF env.answer_fails THEN APOLOGY
                                 ELSE AnswerText(StripTable[message]))
        /\ r.payload.mode = "info"
        /\ r.created = << >>
        /\ r.appended = << >>
        /\ IsResetState(r.next_state))

\* C26 as stated: when no booking is active and the message is not booking
\* intent, the turn delegates to answer_question and returns its text, or the
\* apology if it raises; it does not raise, writes nothing, and the next state
\* is the reset info state whatever the prior state was.
C26_InfoTurnForEveryMessage ==
    \A message \in Messages, env \in Envs :
        (~StateOf("t1").booking_active /\ ~IntentTable[StripTable[message]])
            => AnswersQuestion("t1", message, env)

\* C26 amended: the same for a message that is not empty after stripping.
C26_InfoTurnAnswersOrApologizes ==
    \A message \in Messages \cup {BLANK}, env \in Envs :
        (/\ ~StateOf("t1").booking_active
         /\ ~IntentTable[StripTable[message]]
         /\ StripTable[message] # "")
            => AnswersQuestion("t1", message, env)

\* C26: a question was asked on a thread left in status=cancelled while
\* answer_question failed; the caller got the apology and the state was reset
C26_Witness ==
    /\ last.thread = "t1"
    /\ last.message = STATUS_POLL
    /\ last.prior_status = "cancelled"
    /\ ~last.raised
    /\ LastField("response") = APOLOGY
    /\ IsResetState(get_thread("t1"))

\* the messages that are empty after stripping
EmptyMessages == {"", BLANK}

\* C27: an empty or whitespace-only message is a no-op in every state,
\* including pending with an approved decision stored: the turn returns
\* "Message cannot be empty." and the state it was given (default_state when
\* it was given none), creates no approval, appends no reservation, and calls
\* neither answer_question nor record_reservation.
C27_EmptyMessageIsNoOp ==
    \A message \in EmptyMessages, env \in Envs :
        Bind(TurnResult("t1", message, env), LAMBDA r :
            /\ ~r.raised
            /\ r.payload.response = "Message cannot be empty."
            /\ r.next_state = (IF "t1" \in DOMAIN threads THEN threads["t1"]
                               ELSE default_state)
            /\ r.created = << >>
            /\ r.appended = << >>
            /\ r.mcp = << >>
            /\ ~r.asked)

\* C27: an empty message was sent on a pending thread whose request is
\* approved; the thread is still pending and nothing was recorded
C27_Witness ==
    /\ last.thread = "t1"
    /\ last.message = ""
    /\ last.prior_status = "pending"
    /\ LastField("response") = "Message cannot be empty."
    /\ StateOf("t1").status = "pending"
    /\ StateOf("t1").request_id \in DOMAIN approvals
    /\ IsApproved(StateOf("t1").request_id)
    /\ reservations = << >>
    /\ mcp_log = << >>

\* this step is a chat turn on thread_id whose stripped text is an edit command
EditCommandStep(thread_id) ==
    /\ last'.thread = thread_id
    /\ last'.message # NULL
    /\ EditTable[StripTable[last'.message]] # NULL

\* C28: in review, an edit command for field f (edit, change, update or
\* correct, with the aliases car and plate for car_number and period for
\* reservation_period) leaves the thread collecting with pending_field=f and
\* with collected, request_id, recorded and mcp_recorded as they were, and
\* creates no approval.
C28_EditKeepsCollected ==
    [][(InReview("t1") /\ EditCommandStep("t1"))
          => /\ ~last'.raised
             /\ StateOf("t1")'.status = "collecting"
             /\ StateOf("t1")'.booking_active
             /\ StateOf("t1")'.pending_field = EditTable[StripTable[last'.message]]
             /\ StateOf("t1")'.collected = StateOf("t1").collected
             /\ StateOf("t1")'.request_id = StateOf("t1").request_id
             /\ StateOf("t1")'.recorded = StateOf("t1").recorded
             /\ StateOf("t1")'.mcp_recorded = StateOf("t1").mcp_recorded
             /\ approvals' = approvals]_vars

\* C28: "edit reservation_period" was sent in review; the wizard asks for the
\* name and the four collected values are gone
C28_EditPeriodRestarts ==
    /\ last.thread = "t1"
    /\ last.message = EDIT_PERIOD
    /\ EditTable[StripTable[EDIT_PERIOD]] = "reservation_period"
    /\ last.prior_status = "review"
    /\ StateOf("t1").status = "collecting"
    /\ StateOf("t1").pending_field = "name"
    /\ StateOf("t1").collected = EmptyDict

\* message is none of the commands of the review step: no cancel command, no
\* booking intent, no confirm command, no shorthand and no edit command
NoReviewCommand(message) ==
    /\ ~CancelTable[StripTable[message]]
    /\ ~IntentTable[StripTable[message]]
    /\ ~ConfirmTable[StripTable[message]]
    /\ ParsedTable[StripTable[message]] = EmptyDict
    /\ EditTable[StripTable[message]] = NULL

\* the turn result r re-emits the review summary of thread_id and changes
\* nothing
ReEmitsSummary(thread_id, r) ==
    /\ ~r.raised
    /\ r.payload.response = _render_review_summary(StateOf(thread_id).collected)
    /\ r.payload.status = "review"
    /\ r.next_state = get_thread(thread_id)
    /\ r.created = << >>
    /\ r.appended = << >>
    /\ r.mcp = << >>

\* C29 as stated: in review, a message that is not a cancel command, not
\* booking intent, not a confirm command, contains no shorthand and is not an
\* edit command re-emits the review summary and returns the prior state; it
\* creates no approval however often it is repeated.
C29_AnyOtherMessageReEmitsSummary ==
    \A message \in ProbeMessages :
        (InReview("t1") /\ NoReviewCommand(message))
            => ReEmitsSummary("t1", TurnResult("t1", message, NormalEnv))

\* C29 amended: the same for a message that is not empty after stripping.
C29_OtherTextReEmitsSummary ==
    \A message \in ProbeMessages :
        (InReview("t1") /\ NoReviewCommand(message) /\ StripTable[message] # "")
            => ReEmitsSummary("t1", TurnResult("t1", message, NormalEnv))

\* C29: a text that is no command was sent in review; the caller got the
\* summary again and the thread is still in review with no approval request
C29_Witness ==
    /\ last.thread = "t1"
    /\ last.message = PERIOD_OK
    /\ NoReviewCommand(PERIOD_OK)
    /\ last.prior_status = "review"
    /\ InReview("t1")
    /\ LastField("response") = _render_review_summary(StateOf("t1").collected)
    /\ DOMAIN StateOf("t1").collected = FieldSet
    /\ approvals = EmptyDict

\* the message is a well-formed period with end after start, and the working
\* hours of the DynamicInfo row cannot be parsed
HoursUnknown(message, env) ==
    /\ ValidateTable["reservation_period"][StripTable[message]] = NULL
    /\ HoursTable[env.working_hours].kind = "none"
    /\ WithinTable[StripTable[message]][env.working_hours] = "None"

\* C30: when the configured working-hours text cannot be parsed, a
\* well-formed period with end after start that is typed while the period is
\* awaited is not blocked by the working-hours check: with a free space it is
\* stored normalized and the wizard proceeds to the review.
C30_UnparseableHoursDoNotBlock ==
    AwaitsPeriod("t1")
    => \A message \in ProbeMessages, env \in WizardEnvs :
           (HoursUnknown(message, env) /\ env.available_spaces > 0)
           => \E r \in {TurnResult("t1", message, env)} :
                  /\ ~r.raised
                  /\ "reservation_period" \in DOMAIN r.next_state.collected
                  /\ r.next_state.collected["reservation_period"]
                         = normalize_reservation_period(StripTable[message])
                  /\ \A field \in DOMAIN StateOf("t1").collected \ {"reservation_period"} :
                         r.next_state.collected[field] = StateOf("t1").collected[field]
                  /\ r.next_state.status = "review"
                  /\ r.next_state.pending_field = NULL
                  /\ AlternativesOf(r.payload) = << >>

\* C30: a period that starts before the opening hour of every parseable
\* working-hours text was typed while the period was awaited, and the thread
\* is in review with that period stored
C30_Witness ==
    /\ last.thread = "t1"
    /\ last.message = PERIOD_EARLY
    /\ last.prior_status = "collecting"
    /\ ~last.raised
    /\ \A wh \in WorkingHoursTexts :
           WithinTable[PERIOD_EARLY][wh] = (IF wh = UNPARSEABLE_HOURS THEN "None" ELSE "False")
    /\ InReview("t1")
    /\ StateOf("t1").collected["reservation_period"] = PERIOD_EARLY
    /\ LastField("status") = "review"

(***************************************************************************)
(* Alternative periods.                                                    *)
(***************************************************************************)
\* the rendered period lies inside the window of working_hours and ends
\* after it starts
UsablePeriod(rendered, working_hours) ==
    Bind(parse_reservation_period(rendered), LAMBDA parsed :
    Bind(parse_working_hours_window(working_hours), LAMBDA hours_window :
        /\ parsed.kind = "ok"
        /\ parsed.end > parsed.start
        /\ (hours_window.kind = "ok" /\ hours_window.open_at < hours_window.close_at)
               => is_period_within_working_hours(rendered, working_hours) = "True"))

\* C31: every period returned by suggest_alternative_periods ends strictly
\* after its start and, when the window opens before it closes, itself lies
\* within the working hours; the result has at most 2 entries and no
\* duplicates, and it is empty when the period or the working hours cannot be
\* parsed (the call returns in that case too).
C31_SuggestionsAreUsable ==
    suggested.period # NULL
    => /\ ~suggested.raised
       /\ Len(suggested.result) <= 2
       /\ \A i, j \in 1..Len(suggested.result) :
              suggested.result[i] = suggested.result[j] => i = j
       /\ \A i \in 1..Len(suggested.result) :
              UsablePeriod(suggested.result[i], suggested.working_hours)
       /\ (\/ parse_reservation_period(suggested.period).kind # "ok"
           \/ parse_working_hours_window(suggested.working_hours).kind # "ok")
              => suggested.result = << >>

\* C31: the call with a period whose date does not exist raised
C31_BadDateRaises ==
    /\ suggested.period = PERIOD_BAD_DATE
    /\ suggested.working_hours = DEFAULT_WORKING_HOURS
    /\ PERIOD_RE_match(PERIOD_BAD_DATE) # << >>
    /\ suggested.raised

(***************************************************************************)
(* The approval store.                                                     *)
(***************************************************************************)
\* C32: list_pending_approvals returns exactly the requests whose decision is
\* null: a request is listed from the step that creates it, stays listed
\* while no decision is recorded for it, is no longer listed once
\* set_approval_decision has recorded one, and is never listed again.
C32_PendingListIsUndecided ==
    [][/\ \A request_id \in DOMAIN approvals' \ DOMAIN approvals :
              request_id \in list_pending_approvals(approvals')
       /\ \A request_id \in list_pending_approvals(approvals) :
              \/ request_id \in list_pending_approvals(approvals')
              \/ /\ request_id \in DOMAIN approvals'
                 /\ approvals'[request_id].decision # EmptyDict
                 /\ clock' = clock + 1
       /\ \A request_id \in DOMAIN approvals \ list_pending_approvals(approvals) :
              /\ approvals[request_id].decision # EmptyDict
              /\ request_id \notin list_pending_approvals(approvals')
       /\ list_pending_approvals(approvals') \subseteq DOMAIN approvals']_vars

\* C32: a request that was decided twice is not listed
C32_Witness ==
    /\ "req-1" \in DOMAIN approvals
    /\ approvals["req-1"].decision # EmptyDict
    /\ approvals["req-1"].decision.decided_at = UtcNow(2)
    /\ list_pending_approvals(approvals) = {}

(***************************************************************************)
(* The rate limiter.                                                       *)
(***************************************************************************)
\* number of calls on key that read a time in from..to and were allowed
RECURSIVE GrantedIn(_, _, _)
GrantedIn(key, from, to) ==
    IF from > to \/ from > MaxTime THEN 0
    ELSE granted[key][from] + GrantedIn(key, from + 1, to)

\* in every interval of window_seconds, at most max_requests calls on a key
\* were allowed
WindowQuotaKept ==
    \A key \in RateKeys, t \in 0..MaxTime :
        GrantedIn(key, t, t + window_seconds - 1) <= max_requests

\* worker w leaves the block under the lock in this step
AllowReturns(w) ==
    /\ allow_calls[w].pc = "read"
    /\ allow_calls'[w].pc = "idle"

\* C33: for every key, among the calls of allow made within any interval of
\* window_seconds at most max_requests return allowed=True, also when calls
\* run concurrently; a denied call is not recorded as a hit and returns
\* retry_after >= 1; a call on one key leaves the hits of every other key
\* as they were.
C33_AllowKeepsQuota ==
    /\ []WindowQuotaKept
    /\ [][\A w \in Workers :
             AllowReturns(w)
             => /\ ~allow_last'.allowed
                    => /\ allow_last'.retry_after >= 1
                       /\ Len(HitsOf(_hits', allow_calls[w].key))
                              <= Len(HitsOf(_hits, allow_calls[w].key))
                       /\ granted' = granted
                /\ \A key \in RateKeys \ {allow_calls[w].key} :
                       /\ HitsOf(_hits', key) = HitsOf(_hits, key)
                       /\ granted'[key] = granted[key]]_vars

\* C33: three calls on one key that read the clock within one second of each
\* other were all allowed, with max_requests = 2 and window_seconds = 2; the
\* third had read the clock before a later call evicted the first two hits
C33_QuotaExceeded ==
    \E key \in RateKeys :
        /\ granted[key][0] = 2
        /\ granted[key][1] = 1
        /\ allow_last.key = key
        /\ allow_last.allowed
        /\ allow_last.now = 1
        /\ monotonic >= 2

(***************************************************************************)
(* Invariants of the conversation state.                                   *)
(***************************************************************************)
\* the state is one that a status branch of run_chat_turn handles: collecting
\* with a pending field, review, or pending with a request id
HasBookingStep(state) ==
    \/ state.status = "collecting" /\ state.pending_field # NULL
    \/ state.status = "review"
    \/ state.status = "pending" /\ state.request_id # NULL

\* the result r of a turn ends the booking only by a cancellation or by the
\* administrator's decision
KeepsBooking(r) ==
    \/ r.raised
    \/ r.next_state.booking_active
    \/ r.payload.status \in {"cancelled", "approved", "declined"}

HasFourValues(values) ==
    \A field \in FieldSet :
        /\ field \in DOMAIN values
        /\ values[field] # NULL
        /\ str_strip(values[field]) # ""

\* values holds four non-blank texts and each passes validate_field
HasFourValidValues(values) ==
    /\ HasFourValues(values)
    /\ \A field \in FieldSet : validate_field(field, values[field]) = NULL

\* in review and in pending the collected values are four non-blank texts,
\* and so is the payload of every approval request
ReviewHasFourValues ==
    /\ StateOf("t1").status \in {"review", "pending"} => HasFourValues(StateOf("t1").collected)
    /\ \A request_id \in DOMAIN approvals : HasFourValues(approvals[request_id].payload)

\* C35: in every reachable state with status review or pending, collected
\* holds a non-blank value for each of name, surname, car_number and
\* reservation_period that passes validate_field, and the payload of every
\* approval request holds four such values.
C35_ApprovalHasFourValidValues ==
    /\ StateOf("t1").status \in {"review", "pending"}
       => HasFourValidValues(StateOf("t1").collected)
    /\ \A request_id \in DOMAIN approvals :
           HasFourValidValues(approvals[request_id].payload)

\* C35: the thread waits on an approval request whose payload holds four
\* non-blank values, and its reservation_period fails validate_field
C35_InvalidPeriodSubmitted ==
    /\ StateOf("t1").status = "pending"
    /\ StateOf("t1").request_id \in DOMAIN approvals
    /\ HasFourValues(approvals[StateOf("t1").request_id].payload)
    /\ validate_field("reservation_period",
                      approvals[StateOf("t1").request_id].payload["reservation_period"]) # NULL

\* the ledger holds a record of the request
InLedger(request_id) ==
    \E i \in 1..Len(reservations) : reservations[i].request_id = request_id

\* a thread whose state says recorded is approved and its request is in the
\* ledger
RecordedIsApprovedAndInLedger ==
    StateOf("t1").recorded
    => /\ StateOf("t1").status = "approved"
       /\ StateOf("t1").request_id # NULL
       /\ InLedger(StateOf("t1").request_id)

\* a step that makes the ledger longer is a chat turn of a thread whose
\* request carries an approving decision, and every record it adds is a
\* record of that request
AppendedOnlyWhenApproved ==
    reservations' # reservations
    => /\ last'.message # NULL
       /\ StateOf("t1").request_id \in DOMAIN approvals
       /\ approvals[StateOf("t1").request_id].decision # EmptyDict
       /\ approvals[StateOf("t1").request_id].decision.approved = TRUE
       /\ Len(reservations') > Len(reservations)
       /\ SubSeq(reservations', 1, Len(reservations)) = reservations
       /\ \A i \in (Len(reservations) + 1)..Len(reservations') :
              reservations'[i].request_id = StateOf("t1").request_id

\* C36: in every reachable state recorded=true implies status=approved and a
\* ledger record whose request_id is the state's request_id; a ledger record
\* is only appended in a turn that read an approving decision for the
\* thread's current request_id, never for an undecided, declined or cancelled
\* request.
C36_RecordedMeansApprovedInLedger ==
    /\ []RecordedIsApprovedAndInLedger
    /\ [][AppendedOnlyWhenApproved]_vars

\* C36: the poll that read the approval of the thread's request appended its
\* ledger record and stored recorded=true with status approved
C36_Witness ==
    /\ last.thread = "t1"
    /\ last.prior_status = "pending"
    /\ LastField("status") = "approved"
    /\ StateOf("t1").recorded
    /\ StateOf("t1").status = "approved"
    /\ InLedger(StateOf("t1").request_id)
    /\ approvals[StateOf("t1").request_id].decision.approved = TRUE

\* C37: after any turn whose message is a cancel command (cancel, stop,
\* abort, quit, or a text containing 'cancel booking'), from any prior state
\* including one without an active booking, the stored state has
\* booking_active=false: a cancel command never starts or continues a
\* booking.
C37_CancelNeverStartsBooking ==
    [][CancelStep("t1") => ~StateOf("t1")'.booking_active]_vars

\* a cancel command sent while a booking was active ended it, and one sent
\* without an active booking that is no booking intent left the thread
\* without a booking
CancelEndsOrIgnores ==
    [][(/\ CancelStep("t1")
        /\ StateOf("t1").booking_active \/ ~IntentTable[StripTable[last'.message]])
       => ~StateOf("t1")'.booking_active]_vars

\* C37: "cancel booking" was sent on a thread whose booking had been
\* cancelled, so without an active booking, and started the wizard
C37_CancelBookingStartsWizard ==
    /\ last.thread = "t1"
    /\ last.message = "cancel booking"
    /\ CancelTable[StripTable[last.message]]
    /\ last.prior_status = "cancelled"
    /\ LastField("status") = "collecting"
    /\ StateOf("t1").booking_active
    /\ StateOf("t1").pending_field = "name"

(***************************************************************************)
(* The Durable backend and the local fallback.                             *)
(***************************************************************************)
\* the handling of the current message has stored at most one state, created
\* at most one approval request and appended at most one ledger record
AppliedOnce ==
    /\ Cardinality(durable.applied) <= 1
    /\ durable.created <= 1
    /\ durable.appended <= 1

\* C38: with DURABLE_BASE_URL configured, one message handled by
\* _run_chat_turn is applied to the thread state by at most one of the
\* Durable activity and the local fallback, also when _invoke_durable_chat
\* raises after the orchestration was started: the two together create at
\* most one approval request and append at most one ledger record for the
\* message.
C38_OneHostAppliesMessage == AppliedOnce

\* a message is applied once when no orchestration was started for it or
\* _invoke_durable_chat returned its output
AppliedOnceWithoutFallbackRace ==
    (durable.activity = "none" \/ ~durable.durable_error) => AppliedOnce

\* C38: _invoke_durable_chat raised after the orchestration of "confirm it."
\* was started; the activity and the local fallback each ran the turn on the
\* review state and each created an approval request with the same payload
C38_TwoApprovalsForOneMessage ==
    /\ durable.message = "confirm it."
    /\ durable.durable_error
    /\ durable.activity \in {"ran", "done"}
    /\ durable.created = 2
    /\ DOMAIN approvals = {"req-1", "req-2"}
    /\ approvals["req-1"].payload = approvals["req-2"].payload

(***************************************************************************)
(* Conversations on different threads.                                     *)
(***************************************************************************)
\* the texts tried on the other thread: a field value and a command
OtherThreadMessages == {"O'Neil", "confirm it."}

\* this step leaves what persistence holds for thread b as it was
ThreadUntouched(b) ==
    /\ b \in DOMAIN threads' <=> b \in DOMAIN threads
    /\ b \in DOMAIN threads => threads'[b] = threads[b]

\* C39: a chat turn on a thread, whatever its message, leaves the persisted
\* state of every other thread unchanged, and when it also leaves the
\* approval store unchanged, the turn that a message would take on the other
\* thread is the same after it as before it; a field value sent on a
\* thread without a booking is not taken by the wizard of another thread.
C39_TurnLeavesOtherThreads ==
    [][\A b \in TwoThreads :
          (last'.message # NULL /\ last'.thread # b)
          => /\ ThreadUntouched(b)
             /\ approvals' = approvals
                => \A message \in OtherThreadMessages :
                       TurnResult(b, message, NormalEnv)'
                           = TurnResult(b, message, NormalEnv)]_vars

\* C39: the wizard of t1 awaits the name; "O'Neil" was sent on t2, which has
\* no booking, and was answered as a question; t1 still awaits the name
C39_Witness ==
    /\ last.thread = "t2"
    /\ last.message = "O'Neil"
    /\ LastField("mode") = "info"
    /\ "t1" \in DOMAIN threads
    /\ threads["t1"].booking_active
    /\ threads["t1"].pending_field = "name"
    /\ threads["t1"].collected = EmptyDict
    /\ ~threads["t2"].booking_active

====
